---- MODULE Spec2Model ----
(***************************************************************************)
(* A model of the concurrent certificate-checking core of ssl_tracker:     *)
(* the WorkerPool (internal/ssl, worker pool file), the CertService that   *)
(* wraps it (internal/ssl/ssl_service.go) and the hostname validation the  *)
(* workers run (internal/ssl/cert_check.go).                               *)
(*                                                                         *)
(* Go channels are modelled as a sequence plus a closed flag, goroutines   *)
(* as program counters, a select as a choice among its ready cases, and an *)
(* unrecovered panic as a fault that ends the whole process.               *)
(***************************************************************************)
EXTENDS Integers, Sequences, FiniteSets, TLC

(***************************************************************************)
(* Bounds of the model.                                                    *)
(***************************************************************************)
\* make(chan Task, 100) / make(chan Result, 100): the capacity is scaled down.
QueueCap == 1
\* NewWorkerPool(workers): worker counts 0..MaxWorkers are explored.
MaxWorkers == 2
\* The submitters call AddTask at most this many times in all.
MaxTasks == 2

\* The concurrent callers of AddTask / CheckDomain.
Submitters == {1, 2}
\* The concurrent callers of CertService.Start.
StartCallers == {1, 2}
\* Identities for worker goroutines: one pool start spawns `workers` of them.
Goroutines == 1..(MaxWorkers * Cardinality(StartCallers))
\* Identities for result-draining goroutines.
Drains == 1..Cardinality(StartCallers)

(***************************************************************************)
(* Hostnames are sequences of one-character strings.                       *)
(***************************************************************************)
Alnum == {"a", "b", "1"}
Whitespace == {" "}
MaxHostnameLen == 253
MaxLabelLen == 63

EmptyHostnameErr == "hostname cannot be empty"
HostnameTooLongErr == "hostname too long"
InvalidCharactersErr == "hostname contains invalid characters"
InvalidHostnameErr == "invalid hostname"
NoErr == ""

\* strings.TrimSpace(hostname) == ""
IsBlank(h) == \A i \in 1..Len(h) : h[i] \in Whitespace

\* strings.Split(hostname, "."): the labels between the dots.  Cuts are the
\* positions of the dots and the two ends; the k-th label lies between the
\* k-th cut and the next.
Cuts(h) == {0, Len(h) + 1} \cup {i \in 1..Len(h) : h[i] = "."}
CutAt(h, k) == CHOOSE c \in Cuts(h) : Cardinality({d \in Cuts(h) : d < c}) = k - 1

Labels(h) ==
    [k \in 1..(Cardinality(Cuts(h)) - 1) |->
        SubSeq(h, CutAt(h, k) + 1, CutAt(h, k + 1) - 1)]

\* Mutant: a label of the regular expression may end with a hyphen,
\* [a-zA-Z0-9][a-zA-Z0-9\-]{0,62}
RegexLabelAnyEnd(l) ==
    /\ Len(l) \in 1..MaxLabelLen
    /\ l[1] \in Alnum
    /\ \A i \in 1..Len(l) : l[i] \in Alnum \cup {"-"}

\* One label of the regular expression:
\* [a-zA-Z0-9]([a-zA-Z0-9\-]{0,61}[a-zA-Z0-9])?
RegexLabel(l) ==
    /\ Len(l) \in 1..MaxLabelLen
    /\ l[1] \in Alnum
    /\ l[Len(l)] \in Alnum
    /\ \A i \in 1..Len(l) : l[i] \in Alnum \cup {"-"}

\* validHostnameRegex.MatchString: ^label(\.label)*$
MatchesRegex(h) ==
    LET labels == Labels(h) IN \A k \in 1..Len(labels) : RegexLabel(labels[k])

\* strings.Contains(hostname, "..")
ContainsDotDot(h) ==
    \E i \in 1..(Len(h) - 1) : h[i] = "." /\ h[i + 1] = "."

HasPrefix(h, c) == Len(h) > 0 /\ h[1] = c
HasSuffix(h, c) == Len(h) > 0 /\ h[Len(h)] = c

\* Mutant: the length is checked before the blank test.
ValidateHostnameLengthFirst(h) ==
    IF Len(h) > MaxHostnameLen THEN HostnameTooLongErr
    ELSE IF IsBlank(h) THEN EmptyHostnameErr
    ELSE IF ~MatchesRegex(h) THEN InvalidCharactersErr
    ELSE NoErr

ValidateHostname(h) ==
    IF IsBlank(h) THEN EmptyHostnameErr
    ELSE IF Len(h) > MaxHostnameLen THEN HostnameTooLongErr
    ELSE IF ~MatchesRegex(h) THEN InvalidCharactersErr
    ELSE IF ContainsDotDot(h) THEN InvalidHostnameErr
    ELSE IF \/ HasPrefix(h, ".") \/ HasSuffix(h, ".")
            \/ HasPrefix(h, "-") \/ HasSuffix(h, "-") THEN InvalidHostnameErr
    ELSE IF LET labels == Labels(h) IN \E k \in 1..Len(labels) :
               LET l == labels[k] IN
               \/ Len(l) = 0 \/ Len(l) > MaxLabelLen
               \/ HasPrefix(l, "-") \/ HasSuffix(l, "-") THEN InvalidHostnameErr
    ELSE NoErr

\* Mutant: a failed NewHostname hands back the name it was given.
NewHostnameKeepsName(h) ==
    [hostname |-> h, err |-> ValidateHostname(h)]

\* NewHostname: the Hostname (empty on failure) and the error.
NewHostname(h) ==
    IF ValidateHostname(h) # NoErr
    THEN [hostname |-> <<>>, err |-> ValidateHostname(h)]
    ELSE [hostname |-> h, err |-> NoErr]

\* The domain names the callers submit: a valid one and the empty one.
Domains == {<<"a", ".", "b">>, <<>>}
\* Submitter 1 checks the valid name, submitter 2 the empty one.
DomainOf(s) == IF s = 1 THEN <<"a", ".", "b">> ELSE <<>>

(***************************************************************************)
(* CheckSSLCertificate(ctx, hostname).  What the network answers, when the *)
(* certificate expires and what time it is are the environment's choice;   *)
(* the function maps them to (certificate, error).                         *)
(***************************************************************************)
\* Hostnames of every length up to MaxShortLen over these characters, and
\* long ones around the limits of 253 and 63 characters.
MaxShortLen == 2
HostChars == {"a", "-", ".", " "}
Repeat(c, n) == [i \in 1..n |-> c]
ShortHostnames == UNION {[1..n -> HostChars] : n \in 0..MaxShortLen}
LongHostnames ==
    { Repeat(" ", MaxHostnameLen + 1),
      Repeat("a", MaxHostnameLen + 1),
      Repeat("-", MaxHostnameLen + 1),
      Repeat("a", MaxHostnameLen),
      Repeat("a", MaxLabelLen + 1),
      Repeat("a", MaxLabelLen) \o <<".">> \o Repeat("b", MaxLabelLen) \o <<".">>
          \o Repeat("a", MaxLabelLen) \o <<".">> \o Repeat("1", 61) }
Hostnames == Domains \cup ShortHostnames \cup LongHostnames
    \cup {<<"a", ".", ".", "b">>, <<"-", "a", ".", "b">>, <<"a", ".", "b", ":">>,
          <<"a", "-", "b", ".", "1">>}

\* ValidateHostname of each of these names, computed once.
ValidateOf ==
    LET table == [h \in Hostnames |-> ValidateHostname(h)] IN
    IF table = table THEN table ELSE table

\* The state of ctx when the call is made.
CtxLive == "live"
CtxCanceled == "canceled"
CtxStates == {CtxLive, CtxCanceled}

\* What the network answers: no connection, a failed handshake, a cancelled
\* or expired ctx once the handshake is done, no peer certificate, a certificate.
ProbeOutcomes == {"ok", "dial", "handshake", "nocert", "late"}

\* Time in hours: the certificate's NotAfter, the time of the handshake and
\* the later time.Now() that time.Until reads.
MaxDays == 1
NotAfters == (-(24 * MaxDays) - 1)..(24 * MaxDays + 1)
HandshakeAt == 0
Nows == {HandshakeAt, HandshakeAt + 1}
Answers == [outcome : ProbeOutcomes, notAfter : NotAfters, now : Nows]

\* The answers the pool's workers meet: a certificate, or no connection.
NetworkAnswers ==
    {[outcome |-> "ok", notAfter |-> 24 * MaxDays, now |-> 0],
     [outcome |-> "dial", notAfter |-> 0, now |-> 0]}

NoCert == <<>>

ConnectErr == "failed to connect"
ConnectCanceledErr == "failed to connect: operation was canceled"
HandshakeErr == "TLS handshake failed"
NoCertificatesErr == "no certificates found"
ContextErr == "context canceled"

\* errors.Is(err, context.Canceled)
IsCanceled(err) == err \in {ConnectCanceledErr, ContextErr}

\* The handshake verifies the peer chain for ServerName (the tls.Config does
\* not set InsecureSkipVerify): a certificate past its NotAfter fails it.
Expired(notAfter, now) == now > notAfter

\* Go's conversion of a float64 to an int drops the fraction.
Truncate(n, d) == IF n >= 0 THEN n \div d ELSE -((-n) \div d)

\* TimeLeft(time.Until(cert.NotAfter).Hours() / 24)
DaysRemaining(notAfter, now) == Truncate(notAfter - now, 24)

\* The TCP connection of a probe: never opened, open, closed.
NoConn == "none"
ConnOpen == "open"
ConnClosed == "closed"

\* One deferred call.  conn.Close() closes the connection; client.Close()
\* closes the TLS session and the connection under it; closing a closed
\* connection returns an error that the defer drops.
RunDeferred(call, conn) ==
    IF call \in {"conn.Close", "client.Close"} /\ conn = ConnOpen THEN ConnClosed ELSE conn

\* The deferred calls run at the return, the last one registered first.
RECURSIVE RunDefers(_, _)
RunDefers(defers, conn) ==
    IF defers = <<>> THEN conn
    ELSE RunDefers(SubSeq(defers, 1, Len(defers) - 1),
                   RunDeferred(defers[Len(defers)], conn))

\* Mutant: conn.Close() is not deferred; only the TLS session is closed,
\* once the handshake has succeeded.
DefersAtSessionOnly(answer) ==
    CASE answer.outcome = "dial" -> <<>>
      [] answer.outcome = "handshake" \/ Expired(answer.notAfter, HandshakeAt) -> <<>>
      [] OTHER -> <<"client.Close">>

\* The calls deferred when the probe returns with this answer: none when
\* the dial failed, conn.Close() from the dial on, client.Close() from the
\* handshake on.
DefersAt(answer) ==
    CASE answer.outcome = "dial" -> <<>>
      [] answer.outcome = "handshake" \/ Expired(answer.notAfter, HandshakeAt) -> <<"conn.Close">>
      [] OTHER -> <<"conn.Close", "client.Close">>

\* The connection as the probe leaves it: what DialContext returned, after
\* the deferred calls.
ConnAtReturn(answer) ==
    RunDefers(DefersAt(answer), IF answer.outcome = "dial" THEN NoConn ELSE ConnOpen)

\* Mutant: an empty peer chain is not checked for; a Certificate of zero
\* values is returned without an error.
CheckSSLCertificateNoChainCheck(ctx, hostname, answer) ==
    IF ValidateOf[hostname] # NoErr
    THEN [cert |-> NoCert, err |-> InvalidHostnameErr, attempted |-> FALSE, conn |-> NoConn]
    ELSE IF ctx = CtxCanceled
    THEN [cert |-> NoCert, err |-> ConnectCanceledErr, attempted |-> FALSE, conn |-> NoConn]
    ELSE CASE answer.outcome = "dial" -> [cert |-> NoCert, err |-> ConnectErr, attempted |-> TRUE,
                 conn |-> ConnAtReturn(answer)]
           [] answer.outcome = "handshake" \/ Expired(answer.notAfter, HandshakeAt) ->
                [cert |-> NoCert, err |-> HandshakeErr, attempted |-> TRUE,
                 conn |-> ConnAtReturn(answer)]
           [] answer.outcome = "late" -> [cert |-> NoCert, err |-> ContextErr, attempted |-> TRUE,
                 conn |-> ConnAtReturn(answer)]
           [] answer.outcome = "nocert" -> [cert |-> NoCert, err |-> NoErr, attempted |-> TRUE,
                 conn |-> ConnAtReturn(answer)]
           [] OTHER ->
                [cert |-> <<[Hostname |-> hostname,
                             ExpiryDate |-> answer.notAfter,
                             TimeLeft |-> DaysRemaining(answer.notAfter, answer.now)]>>,
                 err |-> NoErr, attempted |-> TRUE, conn |-> ConnAtReturn(answer)]

\* Mutant: the connection is opened before the hostname is looked at (and
\* the peer chain is not checked for emptiness).
CheckSSLCertificateDialsFirst(ctx, hostname, answer) ==
    IF ValidateOf[hostname] # NoErr
    THEN [cert |-> NoCert, err |-> InvalidHostnameErr, attempted |-> ctx = CtxLive,
          conn |-> IF ctx = CtxLive THEN ConnClosed ELSE NoConn]
    ELSE CheckSSLCertificateNoChainCheck(ctx, hostname, answer)

\* The certificate, the error, and whether a connection was attempted.
CheckSSLCertificate(ctx, hostname, answer) ==
    IF ValidateOf[hostname] # NoErr
    THEN [cert |-> NoCert, err |-> InvalidHostnameErr, attempted |-> FALSE, conn |-> NoConn]
    ELSE IF ctx = CtxCanceled
    THEN [cert |-> NoCert, err |-> ConnectCanceledErr, attempted |-> FALSE, conn |-> NoConn]
    ELSE CASE answer.outcome = "dial" -> [cert |-> NoCert, err |-> ConnectErr, attempted |-> TRUE,
                 conn |-> ConnAtReturn(answer)]
           [] answer.outcome = "handshake" \/ Expired(answer.notAfter, HandshakeAt) ->
                [cert |-> NoCert, err |-> HandshakeErr, attempted |-> TRUE,
                 conn |-> ConnAtReturn(answer)]
           [] answer.outcome = "late" -> [cert |-> NoCert, err |-> ContextErr, attempted |-> TRUE,
                 conn |-> ConnAtReturn(answer)]
           [] answer.outcome = "nocert" -> [cert |-> NoCert, err |-> NoCertificatesErr, attempted |-> TRUE,
                 conn |-> ConnAtReturn(answer)]
           [] OTHER ->
                [cert |-> <<[Hostname |-> hostname,
                             ExpiryDate |-> answer.notAfter,
                             TimeLeft |-> DaysRemaining(answer.notAfter, answer.now)]>>,
                 err |-> NoErr, attempted |-> TRUE, conn |-> ConnAtReturn(answer)]

(***************************************************************************)
(* State.                                                                  *)
(***************************************************************************)
VARIABLES
    workers,        \* WorkerPool.workers
    tasks,          \* WorkerPool.tasks: the buffered Tasks
    tasksClosed,    \* close(wp.tasks) has happened
    results,        \* WorkerPool.results: the buffered Results
    resultsClosed,  \* close(wp.results) has happened
    ctxDone,        \* wp.ctx is cancelled: <-wp.ctx.Done() is ready
    wg,             \* WorkerPool.wg: the WaitGroup counter
    wk,             \* the worker goroutines: [pc, task, result]
    startPc,        \* each Start caller's position
    startI,         \* each Start caller's loop variable i
    stopPc,         \* the Stop caller's position
    mu,             \* CertService.mu: 0 when free, else the caller holding it
    started,        \* CertService.started
    handler,        \* CertService.results: the registered handler, or NilHandler
    dr,             \* the result-draining goroutines: [pc, result, handler]
    subCount,       \* AddTask calls each submitter has made
    fault,          \* the panic that ended the process, or NoFault
    accepted,       \* history: the Tasks sent to wp.tasks, in order
    dropped,        \* history: the Tasks AddTask gave up on
    received,       \* history: the Results read from wp.results, in order
    dispatched,     \* history: (Result, handler) per handler invocation
    lateAdd,        \* history: an AddTask ran once Stop had been called
    queuedAtStop,   \* history: the Tasks waiting in wp.tasks when Stop was called
    probe,          \* one call of the prober made outside the pool: input and outcome
    bulk,           \* each CheckAllDomainsSSLSync caller: [pc, sent, seen, domains]
    done,           \* each caller's `done` channel: the signals buffered in it
    repo,           \* the domains table: a row per DomainID
    ticks,          \* per Task (by DomainID): time its probe has been waiting for the host
    create          \* each CreateDomain caller: [pc, UserID, DomainName, err, calls]

poolVars == <<workers, tasks, tasksClosed, results, resultsClosed, ctxDone, wg, wk>>
callVars == <<startPc, startI, stopPc, subCount, fault>>
csVars == <<mu, started, handler, dr>>
histVars == <<accepted, dropped, received, dispatched, lateAdd, queuedAtStop>>
domVars == <<bulk, done, repo>>
extVars == <<probe, domVars, ticks, create>>
vars == <<poolVars, callVars, csVars, histVars, extVars>>

NoFault == "none"
NilHandler == "nil"
Handlers == {"h1"}

NoTask == [Domain |-> <<>>, DomainID |-> 0, UserID |-> 0]
NoResult == [Task |-> NoTask, Certificate |-> NoCert, Error |-> NoErr]

\* The process runs until a goroutine panics.
Running == fault = NoFault

\* The goroutines that `go wp.worker(i)` has spawned, and those still running.
Spawned == {w \in Goroutines : wk[w].pc # "none"}
Live == {w \in Goroutines : wk[w].pc \notin {"none", "done"}}
LiveDrains == {d \in Drains : dr[d].pc \notin {"none", "done"}}

\* The Results sent to wp.results so far, in order.
Published == received \o results

RECURSIVE SumCount(_, _)
SumCount(f, S) ==
    IF S = {} THEN 0
    ELSE LET x == CHOOSE y \in S : TRUE IN f[x] + SumCount(f, S \ {x})

(***************************************************************************)
(* NewWorkerPool / NewCertService.                                         *)
(***************************************************************************)
\* Mutant: the constructor counts the workers into the WaitGroup.
NewWorkerPoolCountsWorkers(n) ==
    /\ workers = n
    /\ tasks = <<>>
    /\ tasksClosed = FALSE
    /\ results = <<>>
    /\ resultsClosed = FALSE
    /\ ctxDone = FALSE
    /\ wg = n
    /\ wk = [w \in Goroutines |-> [pc |-> "none", task |-> NoTask, result |-> NoResult]]

NewWorkerPool(n) ==
    /\ workers = n
    /\ tasks = <<>>
    /\ tasksClosed = FALSE
    /\ results = <<>>
    /\ resultsClosed = FALSE
    /\ ctxDone = FALSE
    /\ wg = 0
    /\ wk = [w \in Goroutines |-> [pc |-> "none", task |-> NoTask, result |-> NoResult]]

NoCalls ==
    /\ startPc = [c \in StartCallers |-> "idle"]
    /\ startI = [c \in StartCallers |-> 0]
    /\ stopPc = "idle"
    /\ subCount = [s \in Submitters |-> 0]
    /\ fault = NoFault
    /\ accepted = <<>>
    /\ dropped = {}
    /\ received = <<>>
    /\ dispatched = <<>>
    /\ lateAdd = FALSE
    /\ queuedAtStop = 0

NewCertService ==
    /\ mu = 0
    /\ started = FALSE
    /\ handler = NilHandler
    /\ dr = [d \in Drains |-> [pc |-> "none", result |-> NoResult, handler |-> NilHandler,
                              updateErr |-> FALSE]]

\* The prober has not been called outside the pool.
NoProbe ==
    [pc |-> "none", hostname |-> <<>>, ctx |-> CtxLive,
     answer |-> [outcome |-> "ok", notAfter |-> 0, now |-> 0],
     cert |-> NoCert, err |-> NoErr, attempted |-> FALSE,
     made |-> <<>>, isValid |-> FALSE, conn |-> NoConn]

\* The concurrent callers of CreateDomain; none has called yet.
Creators == {1, 2}
NoCreate ==
    [c \in Creators |-> [pc |-> "idle", UserID |-> 0, DomainName |-> <<>>, err |-> NoErr,
                          calls |-> 0]]

\* The callers of the bulk check (the TUI starts one per refresh request).
BulkCallers == {1, 2}
\* The user has at most this many domains.
MaxDomains == 1
\* NULL, in a nullable column or pointer.
Null == <<>>
\* A row is checked on its own at most this many times.
MaxChecks == 1
\* The 10 seconds of a Task's timeout, in ticks.
TaskTimeout == 2

\* No bulk check is running; the table is empty.
NoDomains ==
    /\ bulk = [b \in BulkCallers |-> [pc |-> "idle", sent |-> 0, seen |-> 0, domains |-> <<>>]]
    /\ done = [b \in BulkCallers |-> 0]
    /\ repo = <<>>
    /\ ticks = [id \in 1..MaxTasks |-> 0]
    /\ create = NoCreate

\* A pool used directly, as worker_pool_test.go does, with any worker count.
PoolInit ==
    /\ \E n \in 0..MaxWorkers : NewWorkerPool(n)
    /\ NewCertService
    /\ NoCalls
    /\ probe = NoProbe
    /\ NoDomains

\* A CertService: its pool has a fixed, positive worker count (20 in the
\* source, scaled to 1..MaxWorkers).
Init ==
    /\ \E n \in 1..MaxWorkers : NewWorkerPool(n)
    /\ NewCertService
    /\ NoCalls
    /\ probe = NoProbe
    /\ NoDomains

(***************************************************************************)
(* WorkerPool.processTask.                                                 *)
(***************************************************************************)
\* NewHostname of each name, computed once.
NewHostnameOf ==
    LET table == [d \in Hostnames |-> NewHostname(d)] IN
    IF table = table THEN table ELSE table

\* context.WithTimeout(wp.ctx, 10*time.Second): cancelled when wp.ctx is.
TaskCtx == IF ctxDone THEN CtxCanceled ELSE CtxLive

\* Mutant: the error of NewHostname is ignored and the name is probed anyway.
processTaskProbesAnyway(task, answer) ==
    LET c == CheckSSLCertificate(TaskCtx, task.Domain, answer) IN
    [Task |-> task, Certificate |-> c.cert, Error |-> c.err]

processTask(task, answer) ==
    LET h == NewHostnameOf[task.Domain] IN
    IF h.err # NoErr
    THEN [Task |-> task, Certificate |-> NoCert, Error |-> h.err]
    ELSE LET c == CheckSSLCertificate(TaskCtx, h.hostname, answer) IN
         [Task |-> task, Certificate |-> c.cert, Error |-> c.err]

\* Whether processTask has a connection attempted: only through its call of
\* CheckSSLCertificate, which it reaches when NewHostname accepted the name.
processTaskDials(task, answer) ==
    LET h == NewHostnameOf[task.Domain] IN
    IF h.err # NoErr THEN FALSE
    ELSE CheckSSLCertificate(TaskCtx, h.hostname, answer).attempted

(***************************************************************************)
(* WorkerPool.Start: one loop iteration is wg.Add(1); go wp.worker(i).     *)
(***************************************************************************)
NextGoroutine == CHOOSE w \in Goroutines \ Spawned : \A v \in Goroutines \ Spawned : w <= v

\* Mutant: the loop runs once more than wp.workers (i <= wp.workers).
WorkerPoolStartOneMore(c) ==
    /\ Running
    /\ startPc[c] = "loop"
    /\ startI[c] < workers + 1
    /\ Goroutines \ Spawned # {}
    /\ wg' = wg + 1
    /\ wk' = [wk EXCEPT ![NextGoroutine].pc = "recv"]
    /\ startI' = [startI EXCEPT ![c] = @ + 1]
    /\ UNCHANGED <<workers, tasks, tasksClosed, results, resultsClosed, ctxDone>>
    /\ UNCHANGED <<startPc, stopPc, subCount, fault>>
    /\ UNCHANGED <<csVars, histVars>>
    /\ UNCHANGED extVars

WorkerPoolStart(c) ==
    /\ Running
    /\ startPc[c] = "loop"
    /\ startI[c] < workers
    /\ Goroutines \ Spawned # {}
    /\ wg' = wg + 1
    /\ wk' = [wk EXCEPT ![NextGoroutine].pc = "recv"]
    /\ startI' = [startI EXCEPT ![c] = @ + 1]
    /\ UNCHANGED <<workers, tasks, tasksClosed, results, resultsClosed, ctxDone>>
    /\ UNCHANGED <<startPc, stopPc, subCount, fault>>
    /\ UNCHANGED <<csVars, histVars>>
    /\ UNCHANGED extVars

\* wp.Start() called directly by the pool's owner, once, on a pool in the
\* Created state (Stop not yet called).
PoolStartCall(c) ==
    /\ Running
    /\ \A k \in StartCallers : startPc[k] = "idle"
    /\ stopPc = "idle"
    /\ startPc' = [startPc EXCEPT ![c] = "loop"]
    /\ startI' = [startI EXCEPT ![c] = 0]
    /\ UNCHANGED <<poolVars, stopPc, subCount, fault, csVars, histVars>>
    /\ UNCHANGED extVars

PoolStartReturn(c) ==
    /\ Running
    /\ startPc[c] = "loop"
    /\ startI[c] >= workers
    /\ startPc' = [startPc EXCEPT ![c] = "done"]
    /\ UNCHANGED <<poolVars, startI, stopPc, subCount, fault, csVars, histVars>>
    /\ UNCHANGED extVars

(***************************************************************************)
(* WorkerPool.AddTask: select { case wp.tasks <- task: case <-ctx.Done() } *)
(***************************************************************************)
\* Mutant: the select has a default case, so a full queue drops the task.
AddTaskReadyOrDefault ==
    (IF tasksClosed \/ Len(tasks) < QueueCap THEN {"send"} ELSE {"done"})
        \cup (IF ctxDone THEN {"done"} ELSE {})

\* A send on a closed channel is ready (it panics); so is one with room.
AddTaskReady ==
    (IF tasksClosed \/ Len(tasks) < QueueCap THEN {"send"} ELSE {})
        \cup (IF ctxDone THEN {"done"} ELSE {})

AddTask(task) ==
    /\ Running
    /\ \E branch \in AddTaskReady :
        /\ tasks' = IF branch = "send" /\ ~tasksClosed
                    THEN Append(tasks, task) ELSE tasks
        /\ accepted' = IF branch = "send" /\ ~tasksClosed
                       THEN Append(accepted, task) ELSE accepted
        /\ fault' = IF branch = "send" /\ tasksClosed
                    THEN "send on closed channel" ELSE fault
        /\ dropped' = IF branch = "done" THEN dropped \cup {task} ELSE dropped
    /\ subCount' = [subCount EXCEPT ![task.UserID] = @ + 1]
    /\ lateAdd' = (lateAdd \/ stopPc # "idle")
    /\ UNCHANGED <<workers, tasksClosed, results, resultsClosed, ctxDone, wg, wk>>
    /\ UNCHANGED <<startPc, startI, stopPc, csVars, received, dispatched, queuedAtStop>>
    /\ UNCHANGED extVars

\* The callers' Tasks: UserID names the caller, DomainID numbers the calls.
NextDomainID == SumCount(subCount, Submitters) + 1

Submit(s) ==
    /\ NextDomainID <= MaxTasks
    /\ AddTask([Domain |-> DomainOf(s), DomainID |-> NextDomainID, UserID |-> s])

(***************************************************************************)
(* WorkerPool.worker: for task := range wp.tasks { ... }                   *)
(***************************************************************************)
\* Mutant: the worker has no deferred wg.Done().
WorkerRecvNoDone(w) ==
    /\ Running
    /\ wk[w].pc = "recv"
    /\ \/ /\ Len(tasks) > 0
          /\ wk' = [wk EXCEPT ![w].pc = "process", ![w].task = Head(tasks)]
          /\ tasks' = Tail(tasks)
       \/ /\ Len(tasks) = 0
          /\ tasksClosed
          /\ wk' = [wk EXCEPT ![w].pc = "done"]
          /\ tasks' = tasks
    /\ UNCHANGED <<workers, tasksClosed, results, resultsClosed, ctxDone, wg>>
    /\ UNCHANGED <<callVars, csVars, histVars>>
    /\ UNCHANGED extVars

\* Mutant: the worker leaves as soon as the task queue is closed, whatever
\* is still buffered in it.
WorkerRecvStopsAtClose(w) ==
    /\ Running
    /\ wk[w].pc = "recv"
    /\ \/ /\ Len(tasks) > 0
          /\ ~tasksClosed
          /\ wk' = [wk EXCEPT ![w].pc = "process", ![w].task = Head(tasks)]
          /\ tasks' = Tail(tasks)
          /\ wg' = wg
       \/ /\ tasksClosed
          /\ wk' = [wk EXCEPT ![w].pc = "done"]
          /\ tasks' = tasks
          /\ wg' = wg - 1
    /\ UNCHANGED <<workers, tasksClosed, results, resultsClosed, ctxDone>>
    /\ UNCHANGED <<callVars, csVars, histVars>>
    /\ UNCHANGED extVars

\* The range receives a buffered Task, or ends once the channel is closed
\* and empty (the deferred wg.Done runs); otherwise it waits.
WorkerRecv(w) ==
    /\ Running
    /\ wk[w].pc = "recv"
    /\ \/ /\ Len(tasks) > 0
          /\ wk' = [wk EXCEPT ![w].pc = "process", ![w].task = Head(tasks)]
          /\ tasks' = Tail(tasks)
          /\ wg' = wg
       \/ /\ Len(tasks) = 0
          /\ tasksClosed
          /\ wk' = [wk EXCEPT ![w].pc = "done"]
          /\ tasks' = tasks
          /\ wg' = wg - 1
    /\ UNCHANGED <<workers, tasksClosed, results, resultsClosed, ctxDone>>
    /\ UNCHANGED <<callVars, csVars, histVars>>
    /\ UNCHANGED extVars

\* result := wp.processTask(task)
WorkerProcess(w) ==
    /\ Running
    /\ wk[w].pc = "process"
    /\ \E answer \in NetworkAnswers :
        wk' = [wk EXCEPT ![w].pc = "publish",
                         ![w].result = processTask(wk[w].task, answer),
                         ![w].task = NoTask]
    /\ UNCHANGED <<workers, tasks, tasksClosed, results, resultsClosed, ctxDone, wg>>
    /\ UNCHANGED <<callVars, csVars, histVars>>
    /\ UNCHANGED extVars

\* Mutant: the worker gives up its Result when the result queue is full.
PublishReadyOrGiveUp ==
    (IF resultsClosed \/ Len(results) < QueueCap THEN {"send"} ELSE {"done"})
        \cup (IF ctxDone THEN {"done"} ELSE {})

\* select { case wp.results <- result: case <-wp.ctx.Done(): return }
PublishReady ==
    (IF resultsClosed \/ Len(results) < QueueCap THEN {"send"} ELSE {})
        \cup (IF ctxDone THEN {"done"} ELSE {})

WorkerPublish(w) ==
    /\ Running
    /\ wk[w].pc = "publish"
    /\ \E branch \in PublishReady :
        /\ results' = IF branch = "send" /\ ~resultsClosed
                      THEN Append(results, wk[w].result) ELSE results
        /\ fault' = IF branch = "send" /\ resultsClosed
                    THEN "send on closed channel" ELSE fault
        /\ wk' = [wk EXCEPT ![w].pc = IF branch = "done" THEN "done" ELSE "recv",
                            ![w].result = NoResult]
        /\ wg' = IF branch = "done" THEN wg - 1 ELSE wg
    /\ UNCHANGED <<workers, tasks, tasksClosed, resultsClosed, ctxDone>>
    /\ UNCHANGED <<startPc, startI, stopPc, subCount, csVars, histVars>>
    /\ UNCHANGED extVars

(***************************************************************************)
(* WorkerPool.Stop, statement by statement.  It is called once, when no    *)
(* Start call is in progress.                                              *)
(***************************************************************************)
StopClose ==
    /\ Running
    /\ stopPc = "idle"
    /\ \A c \in StartCallers : startPc[c] \in {"idle", "done"}
    /\ tasksClosed' = TRUE
    /\ fault' = IF tasksClosed THEN "close of closed channel" ELSE fault
    /\ stopPc' = "wait"
    /\ queuedAtStop' = Len(tasks)
    /\ UNCHANGED <<workers, tasks, results, resultsClosed, ctxDone, wg, wk>>
    /\ UNCHANGED <<startPc, startI, subCount, csVars>>
    /\ UNCHANGED <<accepted, dropped, received, dispatched, lateAdd>>
    /\ UNCHANGED extVars

\* Mutant: Stop does not wait for the workers.
StopNoWait ==
    /\ Running
    /\ stopPc = "wait"
    /\ stopPc' = "closeResults"
    /\ UNCHANGED <<poolVars, startPc, startI, subCount, fault, csVars, histVars>>
    /\ UNCHANGED extVars

StopWait ==
    /\ Running
    /\ stopPc = "wait"
    /\ wg = 0
    /\ stopPc' = "closeResults"
    /\ UNCHANGED <<poolVars, startPc, startI, subCount, fault, csVars, histVars>>
    /\ UNCHANGED extVars

\* Mutant: Stop cancels where it should close the result stream.
StopCancelsInsteadOfClosing ==
    /\ Running
    /\ stopPc = "closeResults"
    /\ ctxDone' = TRUE
    /\ stopPc' = "cancel"
    /\ UNCHANGED <<workers, tasks, tasksClosed, results, resultsClosed, wg, wk>>
    /\ UNCHANGED <<startPc, startI, subCount, fault, csVars, histVars>>
    /\ UNCHANGED extVars

StopCloseResults ==
    /\ Running
    /\ stopPc = "closeResults"
    /\ resultsClosed' = TRUE
    /\ fault' = IF resultsClosed THEN "close of closed channel" ELSE fault
    /\ stopPc' = "cancel"
    /\ UNCHANGED <<workers, tasks, tasksClosed, results, ctxDone, wg, wk>>
    /\ UNCHANGED <<startPc, startI, subCount, csVars, histVars>>
    /\ UNCHANGED extVars

StopCancel ==
    /\ Running
    /\ stopPc = "cancel"
    /\ ctxDone' = TRUE
    /\ stopPc' = "returned"
    /\ UNCHANGED <<workers, tasks, tasksClosed, results, resultsClosed, wg, wk>>
    /\ UNCHANGED <<startPc, startI, subCount, fault, csVars, histVars>>
    /\ UNCHANGED extVars

Stop == StopClose \/ StopWait \/ StopCloseResults \/ StopCancel

(***************************************************************************)
(* drainResults of worker_pool_test.go: for range wp.GetResults() {}       *)
(***************************************************************************)
DrainSpawn(d) ==
    /\ Running
    /\ \A k \in Drains : dr[k].pc = "none"
    /\ dr' = [dr EXCEPT ![d].pc = "recv"]
    /\ UNCHANGED <<poolVars, callVars, mu, started, handler, histVars>>
    /\ UNCHANGED extVars

DrainResults(d) ==
    /\ Running
    /\ dr[d].pc = "recv"
    /\ \/ /\ Len(results) > 0
          /\ received' = Append(received, Head(results))
          /\ results' = Tail(results)
          /\ dr' = dr
       \/ /\ Len(results) = 0
          /\ resultsClosed
          /\ dr' = [dr EXCEPT ![d].pc = "done"]
          /\ UNCHANGED <<results, received>>
    /\ UNCHANGED <<workers, tasks, tasksClosed, resultsClosed, ctxDone, wg, wk>>
    /\ UNCHANGED <<callVars, mu, started, handler>>
    /\ UNCHANGED <<accepted, dropped, dispatched, lateAdd, queuedAtStop>>
    /\ UNCHANGED extVars

(***************************************************************************)
(* CertService.                                                            *)
(***************************************************************************)
NextDrain == CHOOSE d \in Drains : dr[d].pc = "none" /\ \A k \in Drains : dr[k].pc = "none" => d <= k

\* Mutant: Start has no `if cs.started { return }`.
CsStartCallNoCheck(c) ==
    /\ Running
    /\ startPc[c] = "idle"
    /\ stopPc = "idle"
    /\ mu = 0
    /\ mu' = c
    /\ startPc' = [startPc EXCEPT ![c] = "loop"]
    /\ startI' = [startI EXCEPT ![c] = 0]
    /\ UNCHANGED <<poolVars, stopPc, subCount, fault, started, handler, dr, histVars>>
    /\ UNCHANGED extVars

\* cs.Start() up to the call of cs.pool.Start(): take the mutex and return at
\* once (releasing it) when the service is already started.  Start is called
\* on a service that Stop has not been called on.
CsStartCall(c) ==
    /\ Running
    /\ startPc[c] = "idle"
    /\ stopPc = "idle"
    /\ mu = 0
    /\ IF started
       THEN /\ startPc' = [startPc EXCEPT ![c] = "done"]
            /\ UNCHANGED <<mu, startI>>
       ELSE /\ mu' = c
            /\ startPc' = [startPc EXCEPT ![c] = "loop"]
            /\ startI' = [startI EXCEPT ![c] = 0]
    /\ UNCHANGED <<poolVars, stopPc, subCount, fault, started, handler, dr, histVars>>
    /\ UNCHANGED extVars

\* cs.pool.Start() has returned: go cs.processResults(); cs.started = true;
\* and the deferred Unlock.
CsStartFinish(c) ==
    /\ Running
    /\ startPc[c] = "loop"
    /\ startI[c] >= workers
    /\ mu = c
    /\ \E d \in Drains : dr[d].pc = "none"
    /\ dr' = [dr EXCEPT ![NextDrain].pc = "recv"]
    /\ started' = TRUE
    /\ mu' = 0
    /\ startPc' = [startPc EXCEPT ![c] = "done"]
    /\ UNCHANGED <<poolVars, startI, stopPc, subCount, fault, handler, histVars>>
    /\ UNCHANGED extVars

\* cs.CheckDomain(domain, domainID, userID)
CheckDomain(domain, domainID, userID) ==
    AddTask([Domain |-> domain, DomainID |-> domainID, UserID |-> userID])

\* cs.SetResultHandler(handler), under the mutex.
SetResultHandler(h) ==
    /\ Running
    /\ mu = 0
    /\ handler' = h
    /\ UNCHANGED <<poolVars, callVars, mu, started, dr, histVars>>
    /\ UNCHANGED extVars

\* Mutant: the loop ends as soon as the result stream is closed, whatever
\* is still buffered in it.
ProcessResultsRecvStopsAtClose(d) ==
    /\ Running
    /\ dr[d].pc = "recv"
    /\ \/ /\ Len(results) > 0
          /\ ~resultsClosed
          /\ received' = Append(received, Head(results))
          /\ results' = Tail(results)
          /\ dr' = [dr EXCEPT ![d].pc = "snapshot", ![d].result = Head(results)]
       \/ /\ resultsClosed
          /\ dr' = [dr EXCEPT ![d].pc = "done"]
          /\ UNCHANGED <<results, received>>
    /\ UNCHANGED <<workers, tasks, tasksClosed, resultsClosed, ctxDone, wg, wk>>
    /\ UNCHANGED <<callVars, mu, started, handler>>
    /\ UNCHANGED <<accepted, dropped, dispatched, lateAdd, queuedAtStop>>
    /\ UNCHANGED extVars

\* processResults: for result := range cs.pool.GetResults()
ProcessResultsRecv(d) ==
    /\ Running
    /\ dr[d].pc = "recv"
    /\ \/ /\ Len(results) > 0
          /\ received' = Append(received, Head(results))
          /\ results' = Tail(results)
          /\ dr' = [dr EXCEPT ![d].pc = "snapshot", ![d].result = Head(results)]
       \/ /\ Len(results) = 0
          /\ resultsClosed
          /\ dr' = [dr EXCEPT ![d].pc = "done"]
          /\ UNCHANGED <<results, received>>
    /\ UNCHANGED <<workers, tasks, tasksClosed, resultsClosed, ctxDone, wg, wk>>
    /\ UNCHANGED <<callVars, mu, started, handler>>
    /\ UNCHANGED <<accepted, dropped, dispatched, lateAdd, queuedAtStop>>
    /\ UNCHANGED extVars

\* Mutant: the loop takes the mutex for the snapshot and keeps it while the
\* handler runs (the holder is written -d).
ProcessResultsSnapshotKeepsLock(d) ==
    /\ Running
    /\ dr[d].pc = "snapshot"
    /\ mu = 0
    /\ mu' = 0 - d
    /\ dr' = [dr EXCEPT ![d].pc = "dispatch", ![d].handler = handler]
    /\ UNCHANGED <<poolVars, callVars, started, handler, histVars>>
    /\ UNCHANGED extVars

\* cs.mu.Lock(); handler := cs.results; cs.mu.Unlock()
ProcessResultsSnapshot(d) ==
    /\ Running
    /\ dr[d].pc = "snapshot"
    /\ mu = 0
    /\ dr' = [dr EXCEPT ![d].pc = "dispatch", ![d].handler = handler]
    /\ UNCHANGED <<poolVars, callVars, mu, started, handler, histVars>>
    /\ UNCHANGED extVars

\* defaultHandler reads result.Certificate.TimeLeft when result.Error is nil.
DefaultHandlerFault(result) ==
    IF result.Error = NoErr /\ result.Certificate = NoCert
    THEN "nil pointer dereference" ELSE NoFault

\* Mutant: the dispatch reads cs.results again instead of using its snapshot.
ProcessResultsDispatchRereads(d) ==
    /\ Running
    /\ dr[d].pc = "dispatch"
    /\ dispatched' = Append(dispatched,
            [result |-> dr[d].result,
             handler |-> IF handler # NilHandler THEN handler ELSE "default"])
    /\ fault' = IF handler # NilHandler THEN fault ELSE DefaultHandlerFault(dr[d].result)
    /\ dr' = [dr EXCEPT ![d].pc = "recv", ![d].result = NoResult, ![d].handler = NilHandler]
    /\ UNCHANGED <<poolVars, startPc, startI, stopPc, subCount, mu, started, handler>>
    /\ UNCHANGED <<accepted, dropped, received, lateAdd, queuedAtStop>>
    /\ UNCHANGED extVars

\* if handler != nil { handler(result) } else { cs.defaultHandler(result) }
ProcessResultsDispatch(d) ==
    /\ Running
    /\ dr[d].pc = "dispatch"
    /\ dispatched' = Append(dispatched,
            [result |-> dr[d].result,
             handler |-> IF dr[d].handler # NilHandler THEN dr[d].handler ELSE "default"])
    /\ fault' = IF dr[d].handler # NilHandler THEN fault ELSE DefaultHandlerFault(dr[d].result)
    /\ dr' = [dr EXCEPT ![d].pc = "recv", ![d].result = NoResult, ![d].handler = NilHandler]
    /\ UNCHANGED <<poolVars, startPc, startI, stopPc, subCount, mu, started, handler>>
    /\ UNCHANGED <<accepted, dropped, received, lateAdd, queuedAtStop>>
    /\ UNCHANGED extVars

processResults(d) ==
    ProcessResultsRecv(d) \/ ProcessResultsSnapshot(d) \/ ProcessResultsDispatch(d)

\* cs.Stop() is cs.pool.Stop().
CsStop == Stop

Next ==
    \/ \E c \in StartCallers : CsStartCall(c) \/ WorkerPoolStart(c) \/ CsStartFinish(c)
    \/ \E s \in Submitters :
          NextDomainID <= MaxTasks /\ CheckDomain(DomainOf(s), NextDomainID, s)
    \/ \E h \in Handlers : SetResultHandler(h)
    \/ \E w \in Goroutines : WorkerRecv(w) \/ WorkerProcess(w) \/ WorkerPublish(w)
    \/ \E d \in Drains : processResults(d)
    \/ CsStop

Spec == Init /\ [][Next]_vars

(***************************************************************************)
(* The service whose owner also calls Start once Stop has returned.        *)
(***************************************************************************)
\* cs.Start() up to the call of cs.pool.Start(), on a stopped service: the
\* code is the same, nothing in it looks at whether Stop has been called.
CsStartCallAfterStop(c) ==
    /\ Running
    /\ startPc[c] = "idle"
    /\ stopPc = "returned"
    /\ mu = 0
    /\ IF started
       THEN /\ startPc' = [startPc EXCEPT ![c] = "done"]
            /\ UNCHANGED <<mu, startI>>
       ELSE /\ mu' = c
            /\ startPc' = [startPc EXCEPT ![c] = "loop"]
            /\ startI' = [startI EXCEPT ![c] = 0]
    /\ UNCHANGED <<poolVars, stopPc, subCount, fault, started, handler, dr, histVars>>
    /\ UNCHANGED extVars

RestartNext ==
    \/ Next
    \/ \E c \in StartCallers : CsStartCallAfterStop(c)

RestartSpec == Init /\ [][RestartNext]_vars

(***************************************************************************)
(* The pool used directly.                                                 *)
(***************************************************************************)
PoolNext ==
    \/ PoolStartCall(1)
    \/ WorkerPoolStart(1)
    \/ PoolStartReturn(1)
    \/ \E s \in Submitters : Submit(s)
    \/ \E w \in Goroutines : WorkerRecv(w) \/ WorkerProcess(w) \/ WorkerPublish(w)
    \/ Stop
    \/ DrainSpawn(1)
    \/ DrainResults(1)

PoolSpec == PoolInit /\ [][PoolNext]_vars

\* Stop called a second time, on a pool whose first Stop has returned: its
\* first statement is again close(wp.tasks), and closing a closed channel
\* panics.
StopCalledAgain ==
    /\ Running
    /\ stopPc = "returned"
    /\ tasksClosed' = TRUE
    /\ fault' = IF tasksClosed THEN "close of closed channel" ELSE fault
    /\ stopPc' = "wait"
    /\ UNCHANGED <<workers, tasks, results, resultsClosed, ctxDone, wg, wk>>
    /\ UNCHANGED <<startPc, startI, subCount, csVars, histVars>>
    /\ UNCHANGED extVars

\* The pool when its owner may call Stop again after Stop has returned.
StopAgainNext ==
    \/ PoolNext
    \/ StopCalledAgain

StopAgainSpec == PoolInit /\ [][StopAgainNext]_vars

\* The Go scheduler runs every runnable goroutine: a worker, a Stop or Start
\* call under way and the drain loop each take their next step when it stays
\* possible.  Whether the owner calls Start, AddTask or Stop at all, or ever
\* reads the results, is left open.
WorkerStep(w) == WorkerRecv(w) \/ WorkerProcess(w) \/ WorkerPublish(w)
StopStep == StopWait \/ StopCloseResults \/ StopCancel

PoolFairness ==
    /\ \A w \in Goroutines : WF_vars(WorkerStep(w))
    /\ WF_vars(StopStep)
    /\ WF_vars(WorkerPoolStart(1) \/ PoolStartReturn(1))
    /\ WF_vars(DrainResults(1))

PoolFairSpec == PoolInit /\ [][PoolNext]_vars /\ PoolFairness

\* The Go scheduler runs every runnable goroutine of the service: the
\* workers, the result loop with the handler it calls (handlers return), and
\* a Start or Stop call under way.  Which calls the owner makes is left open.
Fairness ==
    /\ \A w \in Goroutines : WF_vars(WorkerStep(w))
    /\ \A d \in Drains : WF_vars(processResults(d))
    /\ WF_vars(StopStep)
    /\ \A c \in StartCallers : WF_vars(WorkerPoolStart(c) \/ CsStartFinish(c))

FairSpec == Init /\ [][Next]_vars /\ Fairness

(***************************************************************************)
(* The pool when no remote host ever responds: a probe of a valid name     *)
(* waits in the dial or in the handshake, both of which are given the      *)
(* Task's ctx, until the 10 s of context.WithTimeout(wp.ctx, ...) are over *)
(* (scaled to TaskTimeout ticks) or the pool's ctx is cancelled.           *)
(***************************************************************************)
\* The probe of worker w's Task needs the network and its ctx is live.
ProbeOnNetwork(w) ==
    /\ wk[w].pc = "process"
    /\ NewHostnameOf[wk[w].task.Domain].err = NoErr
    /\ ~ctxDone

\* Time passes while the probe waits for the host.
ProbeWaits(w) ==
    /\ Running
    /\ ProbeOnNetwork(w)
    /\ ticks[wk[w].task.DomainID] < TaskTimeout
    /\ ticks' = [ticks EXCEPT ![wk[w].task.DomainID] = @ + 1]
    /\ UNCHANGED <<poolVars, callVars, csVars, histVars, probe, domVars, create>>

\* Mutant: the handshake is not given the ctx, so nothing ends the wait.
ProbeNeverTimesOut(w) ==
    /\ ~ProbeOnNetwork(w)
    /\ WorkerProcess(w)
    /\ wk'[w].result.Error # NoErr

\* processTask returns: at once for a name that fails validation or under
\* a cancelled ctx, and otherwise when the deadline of the Task's ctx makes
\* DialContext or HandshakeContext fail.
ProbeTimesOut(w) ==
    /\ ProbeOnNetwork(w) => ticks[wk[w].task.DomainID] = TaskTimeout
    /\ WorkerProcess(w)
    /\ wk'[w].result.Error # NoErr

HungNext ==
    \/ PoolStartCall(1)
    \/ WorkerPoolStart(1)
    \/ PoolStartReturn(1)
    \/ \E s \in Submitters : Submit(s)
    \/ \E w \in Goroutines :
          WorkerRecv(w) \/ ProbeWaits(w) \/ ProbeTimesOut(w) \/ WorkerPublish(w)
    \/ Stop
    \/ DrainSpawn(1)
    \/ DrainResults(1)

HungSpec == PoolInit /\ [][HungNext]_vars

\* As PoolFairness; in addition time does not stop.
HungFairness ==
    /\ \A w \in Goroutines : WF_vars(WorkerRecv(w) \/ ProbeTimesOut(w) \/ WorkerPublish(w))
    /\ \A w \in Goroutines : WF_vars(ProbeWaits(w))
    /\ WF_vars(StopStep)
    /\ WF_vars(WorkerPoolStart(1) \/ PoolStartReturn(1))
    /\ WF_vars(DrainResults(1))

HungFairSpec == PoolInit /\ [][HungNext]_vars /\ HungFairness

(***************************************************************************)
(* The prober called on its own, as the tests of the package do: one       *)
(* hostname, validated, checked directly, or processed as a Task and       *)
(* handed to the default handler.                                          *)
(***************************************************************************)
ProbeInit ==
    /\ NewWorkerPool(1)
    /\ NewCertService
    /\ NoCalls
    /\ NoDomains
    /\ \E h \in Hostnames : probe = [NoProbe EXCEPT !.pc = "input", !.hostname = h]

\* err := ValidateHostname(hostname)
ProbeValidate ==
    /\ probe.pc = "input"
    /\ probe' = [probe EXCEPT !.pc = "validated", !.err = ValidateOf[probe.hostname]]
    /\ UNCHANGED <<poolVars, callVars, csVars, histVars, domVars, ticks, create>>

\* h, err := NewHostname(hostname); h.String(); h.IsValid()
ProbeNewHostname ==
    /\ probe.pc = "input"
    /\ LET h == NewHostnameOf[probe.hostname] IN
        probe' = [probe EXCEPT !.pc = "made", !.made = h.hostname, !.err = h.err,
                               !.isValid = (ValidateOf[h.hostname] = NoErr)]
    /\ UNCHANGED <<poolVars, callVars, csVars, histVars, domVars, ticks, create>>

\* cert, err := CheckSSLCertificate(ctx, Hostname(hostname))
ProbeCheck(ctx, answer) ==
    /\ probe.pc = "input"
    /\ LET c == CheckSSLCertificate(ctx, probe.hostname, answer) IN
        probe' = [probe EXCEPT !.pc = "checked", !.ctx = ctx, !.answer = answer,
                               !.cert = c.cert, !.err = c.err, !.attempted = c.attempted,
                               !.conn = c.conn]
    /\ UNCHANGED <<poolVars, callVars, csVars, histVars, domVars, ticks, create>>

\* result := wp.processTask(Task{Domain: hostname, DomainID: 1, UserID: 1})
ProbeProcessTask(answer) ==
    /\ probe.pc = "input"
    /\ LET r == processTask([Domain |-> probe.hostname, DomainID |-> 1, UserID |-> 1], answer) IN
        probe' = [probe EXCEPT !.pc = "processed", !.ctx = TaskCtx, !.answer = answer,
                               !.cert = r.Certificate, !.err = r.Error,
                               !.attempted = processTaskDials(r.Task, answer)]
    /\ UNCHANGED <<poolVars, callVars, csVars, histVars, domVars, ticks, create>>

\* cs.defaultHandler(result)
ProbeDefaultHandler ==
    /\ probe.pc = "processed"
    /\ probe' = [probe EXCEPT !.pc = "handled"]
    /\ fault' = DefaultHandlerFault([Task |-> NoTask, Certificate |-> probe.cert,
                                     Error |-> probe.err])
    /\ UNCHANGED <<poolVars, startPc, startI, stopPc, subCount, csVars, histVars, domVars, ticks, create>>

ProbeNext ==
    \/ ProbeValidate
    \/ ProbeNewHostname
    \/ \E ctx \in CtxStates, answer \in Answers : ProbeCheck(ctx, answer)
    \/ \E answer \in Answers : ProbeProcessTask(answer)
    \/ ProbeDefaultHandler

ProbeSpec == ProbeInit /\ [][ProbeNext]_vars

(***************************************************************************)
(* The domain service: Repository.UpdateSSLInfo, Service.CheckDomainSSL    *)
(* and Service.CheckAllDomainsSSLSync, which the TUI runs in a goroutine   *)
(* of its own per refresh request, all for user 1.                         *)
(***************************************************************************)
\* An expiry date that an earlier successful check has stored.
StoredExpiry == <<24 * MaxDays - 1>>

\* Names are validated when a domain is added, so every row has a valid one.
DomainName(id) == <<"a", ".", "b">>

\* UPDATE domains SET expiry_date = ?, last_checked = ?, last_error = ?
\* WHERE id = ?  -- a nil pointer is written as NULL; the clock moves on.
UpdateSSLInfo(table, domainID, expiryDate, lastError) ==
    IF domainID \in DOMAIN table
    THEN [table EXCEPT ![domainID].expiry = expiryDate,
                       ![domainID].lastError = lastError,
                       ![domainID].lastChecked = table[domainID].lastChecked + 1]
    ELSE table

\* What both the bulk handler and CheckDomainSSL pass to UpdateSSLInfo:
\* (nil, &errorStr) when the check failed, (&expiryTime, nil) otherwise.
PersistResult(table, domainID, cert, err) ==
    IF err # NoErr
    THEN UpdateSSLInfo(table, domainID, Null, <<err>>)
    ELSE UpdateSSLInfo(table, domainID, <<cert[1].ExpiryDate>>, Null)

\* The closure each CheckAllDomainsSSLSync call registers.
BulkHandler(b) == IF b = 1 THEN "bulk1" ELSE "bulk2"
BulkHandlers == {BulkHandler(b) : b \in BulkCallers}
HandlerOwner(h) == CHOOSE b \in BulkCallers : BulkHandler(b) = h

\* len(domains)
NumDomains == Cardinality(DOMAIN repo)

\* GetUsersDomains(userID): the rows of the table, by id.
GetUsersDomains ==
    [k \in 1..NumDomains |->
        CHOOSE id \in DOMAIN repo : Cardinality({j \in DOMAIN repo : j < id}) = k - 1]

\* A service as main.go builds it, over a table of rows that were never
\* checked or hold the expiry of an earlier check.
DomainInit ==
    /\ NewWorkerPool(MaxWorkers)
    /\ NewCertService
    /\ NoCalls
    /\ probe = NoProbe
    /\ bulk = [b \in BulkCallers |-> [pc |-> "idle", sent |-> 0, seen |-> 0, domains |-> <<>>]]
    /\ done = [b \in BulkCallers |-> 0]
    /\ \E n \in 0..MaxDomains : \E prev \in {Null, StoredExpiry} :
          repo = [id \in 1..n |-> [UserID |-> 1, DomainName |-> DomainName(id),
                                    expiry |-> prev, lastError |-> Null, lastChecked |-> 0]]
    /\ ticks = [id \in 1..MaxTasks |-> 0]
    /\ create = NoCreate

\* CheckDomainSSL(domainID): the check runs in the calling goroutine.
CheckDomainSSL(domainID, answer) ==
    /\ Running
    /\ domainID \in DOMAIN repo
    /\ repo[domainID].lastChecked < MaxChecks
    /\ LET h == NewHostnameOf[DomainName(domainID)]
           c == CheckSSLCertificate(CtxLive, h.hostname, answer)
       IN repo' = IF h.err # NoErr
                  THEN UpdateSSLInfo(repo, domainID, Null, <<h.err>>)
                  ELSE PersistResult(repo, domainID, c.cert, c.err)
    /\ UNCHANGED <<poolVars, callVars, csVars, histVars, ticks, create, probe, bulk, done>>

\* domains, err := s.GetUsersDomains(userID); return at once when there are
\* none; done := make(chan bool, len(domains)).
BulkBegin(b) ==
    /\ Running
    /\ bulk[b].pc = "idle"
    /\ bulk' = [bulk EXCEPT ![b].pc = IF NumDomains = 0 THEN "returned" ELSE "start",
                            ![b].domains = GetUsersDomains]
    /\ done' = [done EXCEPT ![b] = 0]
    /\ UNCHANGED <<poolVars, callVars, csVars, histVars, ticks, create, probe, repo>>

\* s.sslService.Start()
BulkStart(b) ==
    /\ bulk[b].pc = "start"
    /\ CsStartCall(b) \/ WorkerPoolStart(b) \/ CsStartFinish(b)

\* s.sslService.SetResultHandler(func(result ssl.Result) { ... })
BulkSetHandler(b) ==
    /\ Running
    /\ bulk[b].pc = "start"
    /\ startPc[b] = "done"
    /\ mu = 0
    /\ handler' = BulkHandler(b)
    /\ bulk' = [bulk EXCEPT ![b].pc = "submit"]
    /\ UNCHANGED <<poolVars, callVars, mu, started, dr, histVars, ticks, create, probe, done, repo>>

\* One iteration of the submit loop: CheckDomain is AddTask, whose select
\* sends the Task or, on a cancelled pool, drops it.
BulkSubmit(b) ==
    /\ Running
    /\ bulk[b].pc = "submit"
    /\ LET id == bulk[b].domains[bulk[b].sent + 1]
           task == [Domain |-> DomainName(id), DomainID |-> id, UserID |-> 1]
       IN \E branch \in AddTaskReady :
            /\ tasks' = IF branch = "send" /\ ~tasksClosed
                        THEN Append(tasks, task) ELSE tasks
            /\ accepted' = IF branch = "send" /\ ~tasksClosed
                           THEN Append(accepted, task) ELSE accepted
            /\ fault' = IF branch = "send" /\ tasksClosed
                        THEN "send on closed channel" ELSE fault
            /\ dropped' = IF branch = "done" THEN dropped \cup {task} ELSE dropped
    /\ subCount' = [subCount EXCEPT ![1] = @ + 1]
    /\ lateAdd' = (lateAdd \/ stopPc # "idle")
    /\ bulk' = [bulk EXCEPT ![b].sent = @ + 1,
                            ![b].pc = IF bulk[b].sent + 1 = Len(bulk[b].domains)
                                      THEN "wait" ELSE "submit"]
    /\ UNCHANGED <<workers, tasksClosed, results, resultsClosed, ctxDone, wg, wk>>
    /\ UNCHANGED <<startPc, startI, stopPc, csVars, received, dispatched, queuedAtStop>>
    /\ UNCHANGED <<ticks, create, probe, done, repo>>

\* One iteration of the wait loop: <-done; return nil after the last one.
BulkWait(b) ==
    /\ Running
    /\ bulk[b].pc = "wait"
    /\ done[b] > 0
    /\ done' = [done EXCEPT ![b] = @ - 1]
    /\ bulk' = [bulk EXCEPT ![b].seen = @ + 1,
                            ![b].pc = IF bulk[b].seen + 1 = Len(bulk[b].domains)
                                      THEN "returned" ELSE "wait"]
    /\ UNCHANGED <<poolVars, callVars, csVars, histVars, ticks, create, probe, repo>>

\* Mutant: the closure returns when UpdateSSLInfo reports an error, without
\* `done <- true`.
BulkHandlerUpdateReturnsOnError(d) ==
    /\ Running
    /\ dr[d].pc = "dispatch"
    /\ dr[d].handler \in BulkHandlers
    /\ repo' = PersistResult(repo, dr[d].result.Task.DomainID,
                             dr[d].result.Certificate, dr[d].result.Error)
    /\ dispatched' = Append(dispatched, [result |-> dr[d].result, handler |-> dr[d].handler])
    /\ dr' = IF dr[d].result.Task.DomainID \in DOMAIN repo
             THEN [dr EXCEPT ![d].pc = "signal", ![d].updateErr = FALSE]
             ELSE [dr EXCEPT ![d].pc = "recv", ![d].result = NoResult,
                             ![d].handler = NilHandler, ![d].updateErr = TRUE]
    /\ UNCHANGED <<poolVars, callVars, mu, started, handler>>
    /\ UNCHANGED <<accepted, dropped, received, lateAdd, queuedAtStop>>
    /\ UNCHANGED <<ticks, create, probe, bulk, done>>

\* processResults calls the closure it took: the closure's UpdateSSLInfo.
BulkHandlerUpdate(d) ==
    /\ Running
    /\ dr[d].pc = "dispatch"
    /\ dr[d].handler \in BulkHandlers
    /\ repo' = PersistResult(repo, dr[d].result.Task.DomainID,
                             dr[d].result.Certificate, dr[d].result.Error)
    /\ dispatched' = Append(dispatched, [result |-> dr[d].result, handler |-> dr[d].handler])
    /\ dr' = [dr EXCEPT ![d].pc = "signal",
                        ![d].updateErr = (dr[d].result.Task.DomainID \notin DOMAIN repo)]
    /\ UNCHANGED <<poolVars, callVars, mu, started, handler>>
    /\ UNCHANGED <<accepted, dropped, received, lateAdd, queuedAtStop>>
    /\ UNCHANGED <<ticks, create, probe, bulk, done>>

\* The closure's `done <- true`, on the channel of the call that made it;
\* it waits while that channel is full.  Then the loop receives again.
BulkHandlerSignal(d) ==
    /\ Running
    /\ dr[d].pc = "signal"
    /\ done[HandlerOwner(dr[d].handler)] < Len(bulk[HandlerOwner(dr[d].handler)].domains)
    /\ done' = [done EXCEPT ![HandlerOwner(dr[d].handler)] = @ + 1]
    /\ dr' = [dr EXCEPT ![d].pc = "recv", ![d].result = NoResult, ![d].handler = NilHandler]
    /\ UNCHANGED <<poolVars, callVars, mu, started, handler, histVars>>
    /\ UNCHANGED <<ticks, create, probe, bulk, repo>>

CheckAllDomainsSSLSync(b) ==
    BulkBegin(b) \/ BulkStart(b) \/ BulkSetHandler(b) \/ BulkSubmit(b) \/ BulkWait(b)

DomainNext ==
    \/ \E b \in BulkCallers : CheckAllDomainsSSLSync(b)
    \/ \E w \in Goroutines : WorkerRecv(w) \/ WorkerProcess(w) \/ WorkerPublish(w)
    \/ \E d \in Drains :
          \/ ProcessResultsRecv(d) \/ ProcessResultsSnapshot(d)
          \/ BulkHandlerUpdate(d) \/ BulkHandlerSignal(d)
    \/ \E id \in 1..MaxDomains : \E answer \in NetworkAnswers : CheckDomainSSL(id, answer)

DomainSpec == DomainInit /\ [][DomainNext]_vars

\* Every goroutine that can take its next step does: the workers, the
\* result loop with the handler it runs, and each bulk check under way.
\* Whether a bulk check or a single check is requested at all is left open.
BulkStep(b) == BulkStart(b) \/ BulkSetHandler(b) \/ BulkSubmit(b) \/ BulkWait(b)
ResultLoopStep(d) ==
    \/ ProcessResultsRecv(d) \/ ProcessResultsSnapshot(d)
    \/ BulkHandlerUpdate(d) \/ BulkHandlerSignal(d)

DomainFairness ==
    /\ \A w \in Goroutines : WF_vars(WorkerStep(w))
    /\ \A d \in Drains : WF_vars(ResultLoopStep(d))
    /\ \A b \in BulkCallers : WF_vars(BulkStep(b))

DomainFairSpec == DomainInit /\ [][DomainNext]_vars /\ DomainFairness

\* DELETE FROM domains WHERE id = ?  -- an error, and no change, when no
\* row has that id.
DeleteDomain(table, domainID) ==
    [id \in DOMAIN table \ {domainID} |-> table[id]]

\* RemoveDomain(domainID), which the TUI calls on a key press, whatever
\* checks are under way.
RemoveDomain(domainID) ==
    /\ Running
    /\ domainID \in DOMAIN repo
    /\ repo' = DeleteDomain(repo, domainID)
    /\ UNCHANGED <<poolVars, callVars, csVars, histVars, ticks, create, probe, bulk, done>>

\* The domain service when domains may be removed at any moment.
RemoveNext ==
    \/ DomainNext
    \/ \E id \in 1..MaxDomains : RemoveDomain(id)

RemoveFairSpec == DomainInit /\ [][RemoveNext]_vars /\ DomainFairness

(***************************************************************************)
(* Repository.CreateDomain, called by several goroutines at once: the      *)
(* checks, the SELECT of CheckForDuplicateDomains and the INSERT are       *)
(* separate steps; the table has UNIQUE(user_id, domain_name).             *)
(***************************************************************************)
\* Each caller calls CreateDomain at most this many times.
MaxCreates == 2
CreateUserIDs == {0, 1}
CreateNames == {<<>>, <<"a", ".", "b">>}

InvalidUserIDErr == "invalid user ID: user ID cannot be zero"
EmptyDomainNameErr == "domain name cannot be empty"
DuplicateDomainErr == "domain already exists for this user"
UniqueConstraintErr == "UNIQUE constraint failed: domains.user_id, domains.domain_name"

\* SELECT ... FROM domains WHERE user_id = ? AND domain_name = ?
CheckForDuplicateDomains(table, userID, domainName) ==
    {id \in DOMAIN table : table[id].UserID = userID /\ table[id].DomainName = domainName}

\* id INTEGER PRIMARY KEY AUTOINCREMENT, on a table nothing is deleted from.
NextRowID(table) == Cardinality(DOMAIN table) + 1

\* A table as the migration creates it: empty, or with one domain stored.
CreateInit ==
    /\ NewWorkerPool(1)
    /\ NewCertService
    /\ NoCalls
    /\ probe = NoProbe
    /\ bulk = [b \in BulkCallers |-> [pc |-> "idle", sent |-> 0, seen |-> 0, domains |-> <<>>]]
    /\ done = [b \in BulkCallers |-> 0]
    /\ \E n \in 0..1 :
          repo = [id \in 1..n |-> [UserID |-> 1, DomainName |-> DomainName(id),
                                    expiry |-> Null, lastError |-> Null, lastChecked |-> 0]]
    /\ ticks = [id \in 1..MaxTasks |-> 0]
    /\ create = NoCreate

\* CreateDomain(domain) up to the duplicate check: ValidateUserID and the
\* empty-name test.
CreateValidate(c, userID, domainName) ==
    /\ create[c].pc \in {"idle", "done"}
    /\ create[c].calls < MaxCreates
    /\ create' = [create EXCEPT
            ![c] = [pc |-> IF userID = 0 \/ domainName = <<>> THEN "done" ELSE "check",
                    UserID |-> userID,
                    DomainName |-> domainName,
                    err |-> IF userID = 0 THEN InvalidUserIDErr
                            ELSE IF domainName = <<>> THEN EmptyDomainNameErr
                            ELSE NoErr,
                    calls |-> create[c].calls + 1]]
    /\ UNCHANGED <<poolVars, callVars, csVars, histVars, probe, domVars, ticks>>

\* existingDomain, err := r.CheckForDuplicateDomains(...); an error when
\* a row is found.
CreateCheck(c) ==
    /\ create[c].pc = "check"
    /\ create' = IF CheckForDuplicateDomains(repo, create[c].UserID, create[c].DomainName) # {}
                 THEN [create EXCEPT ![c].pc = "done", ![c].err = DuplicateDomainErr]
                 ELSE [create EXCEPT ![c].pc = "insert"]
    /\ UNCHANGED <<poolVars, callVars, csVars, histVars, probe, domVars, ticks>>

\* Mutant: the table has no UNIQUE(user_id, domain_name).
CreateInsertNoConstraint(c) ==
    /\ create[c].pc = "insert"
    /\ repo' = [id \in DOMAIN repo \cup {NextRowID(repo)} |->
                    IF id \in DOMAIN repo THEN repo[id]
                    ELSE [UserID |-> create[c].UserID, DomainName |-> create[c].DomainName,
                          expiry |-> Null, lastError |-> Null, lastChecked |-> 0]]
    /\ create' = [create EXCEPT ![c].pc = "done", ![c].err = NoErr]
    /\ UNCHANGED <<poolVars, callVars, csVars, histVars, probe, bulk, done, ticks>>

\* INSERT INTO domains (user_id, domain_name, is_active, created_at): the
\* statement fails, and stores nothing, when the pair is already there.
CreateInsert(c) ==
    /\ create[c].pc = "insert"
    /\ IF CheckForDuplicateDomains(repo, create[c].UserID, create[c].DomainName) # {}
       THEN /\ repo' = repo
            /\ create' = [create EXCEPT ![c].pc = "done", ![c].err = UniqueConstraintErr]
       ELSE /\ repo' = [id \in DOMAIN repo \cup {NextRowID(repo)} |->
                            IF id \in DOMAIN repo THEN repo[id]
                            ELSE [UserID |-> create[c].UserID,
                                  DomainName |-> create[c].DomainName,
                                  expiry |-> Null, lastError |-> Null, lastChecked |-> 0]]
            /\ create' = [create EXCEPT ![c].pc = "done", ![c].err = NoErr]
    /\ UNCHANGED <<poolVars, callVars, csVars, histVars, probe, bulk, done, ticks>>

CreateDomain(c) ==
    \/ \E userID \in CreateUserIDs, domainName \in CreateNames :
          CreateValidate(c, userID, domainName)
    \/ CreateCheck(c)
    \/ CreateInsert(c)

CreateNext == \E c \in Creators : CreateDomain(c)

CreateSpec == CreateInit /\ [][CreateNext]_vars

(***************************************************************************)
(* Properties of the pool used directly.                                   *)
(***************************************************************************)
\* wp.Start() has returned.
PoolStarted == \E c \in StartCallers : startPc[c] = "done"
\* A consumer is ranging over wp.GetResults().
Drained == \E d \in Drains : dr[d].pc = "recv"
\* AddTask calls made so far.
Submitted == SumCount(subCount, Submitters)

IsAccepted(id) == \E i \in 1..Len(accepted) : accepted[i].DomainID = id
ResultsFor(t) == {j \in 1..Len(Published) : Published[j].Task = t}
HasOneResult(id) ==
    \E i \in 1..Len(accepted) :
        accepted[i].DomainID = id /\ Cardinality(ResultsFor(accepted[i])) = 1

\* C1: on a started pool with at least one worker and a draining consumer,
\* every Task that AddTask put on the queue eventually has exactly one Result
\* on the result stream, whose Task is the submitted Task; at no time does a
\* Result refer to a Task that was not accepted, and no Task has two Results.
C1_EveryTaskYieldsOneResult ==
    /\ [](\A j \in 1..Len(Published) :
            /\ \E i \in 1..Len(accepted) : accepted[i] = Published[j].Task
            /\ ResultsFor(Published[j].Task) = {j})
    /\ \A id \in 1..MaxTasks :
         (IsAccepted(id) /\ PoolStarted /\ workers >= 1 /\ Drained)
            ~> HasOneResult(id)

\* The same holds in every run in which the process does not panic.
EveryTaskYieldsOneResultUnlessFault ==
    /\ [](\A j \in 1..Len(Published) :
            /\ \E i \in 1..Len(accepted) : accepted[i] = Published[j].Task
            /\ ResultsFor(Published[j].Task) = {j})
    /\ \A id \in 1..MaxTasks :
         (IsAccepted(id) /\ PoolStarted /\ workers >= 1 /\ Drained)
            ~> (HasOneResult(id) \/ fault # NoFault)

\* C2 as stated: when Stop is called only after every AddTask call has
\* returned, the consumer of a started pool has received as many Results as
\* AddTask calls were made once the result stream is closed and drained.
C2_AllResultsCounted_Original ==
    (dr[1].pc = "done" /\ PoolStarted /\ ~lateAdd) => Len(received) = Submitted

\* C2 amended: the same, on a pool with at least one worker.
C2_AllResultsCounted ==
    (dr[1].pc = "done" /\ PoolStarted /\ workers >= 1 /\ ~lateAdd)
        => Len(received) = Submitted

C2_Witness ==
    /\ dr[1].pc = "done"
    /\ PoolStarted
    /\ workers = MaxWorkers
    /\ ~lateAdd
    /\ \A s \in Submitters : subCount[s] >= 1
    /\ Len(received) = MaxTasks

\* C3: for every worker count, Stop on a started pool to which no Task was
\* ever submitted (so nothing was ever consumed) eventually returns.
C3_StopReturnsOnIdlePool ==
    (stopPc # "idle" /\ PoolStarted /\ Submitted = 0)
        ~> (stopPc = "returned" \/ Submitted > 0)

C3_Witness ==
    /\ stopPc = "returned"
    /\ PoolStarted
    /\ Submitted = 0
    /\ workers = MaxWorkers
    /\ dr[1].pc = "none"

\* C4: once called, Stop eventually returns, whether or not anybody reads
\* the result stream (no AddTask being called once Stop has been).
C4_StopReturnsUndrained ==
    (stopPc # "idle") ~> (stopPc = "returned" \/ lateAdd)

\* C5: once Stop has returned, no worker is running (every spawned worker has
\* left and the WaitGroup is at zero) and the result queue is closed.
C5_StoppedMeansJoined ==
    stopPc = "returned" => (Live = {} /\ wg = 0 /\ resultsClosed)

C5_Witness ==
    /\ stopPc = "returned"
    /\ Cardinality(Spawned) = MaxWorkers
    /\ Len(accepted) = MaxTasks

\* C6: no send is ever attempted on a closed queue, by AddTask on the task
\* queue or by a worker on the result queue.
C6_NoSendOnClosedQueue == fault # "send on closed channel"

\* C7: an AddTask call made once the cancellation signal has fired returns
\* without a fault and drops its Task.
C7_AddAfterCancelIsDropped ==
    [][(ctxDone /\ subCount' # subCount)
         => (fault' = NoFault /\ accepted' = accepted /\ dropped' # dropped)]_vars

\* C8: when Stop returns on a started pool with at least one worker, every
\* Task accepted before, those still queued when Stop was called included,
\* has its Result published.
C8_StopDrainsQueue ==
    (stopPc = "returned" /\ PoolStarted /\ workers >= 1)
        => \A i \in 1..Len(accepted) : ResultsFor(accepted[i]) # {}

C8_Witness ==
    /\ stopPc = "returned"
    /\ PoolStarted
    /\ workers >= 1
    /\ queuedAtStop = QueueCap
    /\ Len(accepted) = MaxTasks

(***************************************************************************)
(* Properties of the CertService.                                          *)
(***************************************************************************)
SpawnedDrains == {d \in Drains : dr[d].pc # "none"}
StartReturned == \E c \in StartCallers : startPc[c] = "done"
NeverStarted == \A c \in StartCallers : startPc[c] = "idle"

\* C9: however many Start calls are made, one after the other or at the same
\* time, the pool is started once (it never has more goroutines than
\* workers, and has exactly that many once a Start call has returned), one
\* result-draining loop is spawned, and no Result reaches a handler twice.
C9_StartOnce ==
    /\ Cardinality(Spawned) <= workers
    /\ Cardinality(SpawnedDrains) <= 1
    /\ StartReturned =>
          /\ started
          /\ Cardinality(Spawned) = workers
          /\ Cardinality(SpawnedDrains) = 1
    /\ \A i, j \in 1..Len(dispatched) :
          dispatched[i].result = dispatched[j].result => i = j

C9_Witness ==
    /\ \A c \in StartCallers : startPc[c] = "done"
    /\ workers = MaxWorkers
    /\ Len(dispatched) = MaxTasks

\* C10: Stop on a service whose Start was never called does not block at any
\* of its steps, raises no fault, and no worker and no drain loop is running.
C10_StopWithoutStart ==
    /\ [](NeverStarted =>
            /\ (stopPc \in {"wait", "closeResults", "cancel"} /\ Running)
                  => ENABLED StopStep
            /\ Live = {}
            /\ LiveDrains = {})
    /\ [][(NeverStarted /\ stopPc' # stopPc) => fault' = NoFault]_vars

C10_Witness ==
    /\ NeverStarted
    /\ stopPc = "returned"
    /\ resultsClosed
    /\ ctxDone
    /\ fault = NoFault

(***************************************************************************)
(* Properties of the Results.                                              *)
(***************************************************************************)
EmptyDomainResults == {j \in 1..Len(Published) : Published[j].Task.Domain = <<>>}

C12_CertificateXorError ==
    /\ probe.pc \in {"processed", "handled"} =>
          (probe.cert = NoCert) # (probe.err = NoErr)
    /\ fault # "nil pointer dereference"

C12_Witness ==
    /\ probe.pc = "handled"
    /\ probe.err # NoErr
    /\ probe.hostname = <<"a", ".", "b">>

\* The Results the drain loop has read and not yet handed to a handler.
InDispatch == {d \in Drains : dr[d].pc \in {"snapshot", "dispatch"}}
HandlerFor(h) == IF h # NilHandler THEN h ELSE "default"

\* C13: each Result the drain loop reads is dispatched exactly once (the
\* dispatches are the Results read, in order, short of the one in hand), to
\* the handler registered when the loop took its snapshot for that Result,
\* or to the default handler when none was registered.
C13_OneHandlerPerResult ==
    /\ [](/\ Len(dispatched) + Cardinality(InDispatch) = Len(received)
          /\ \A i \in 1..Len(dispatched) : dispatched[i].result = received[i])
    /\ [][\A d \in Drains :
            (dr[d].pc = "snapshot" /\ dr'[d].pc = "dispatch")
                => dr'[d].handler = handler]_vars
    /\ [][\A d \in Drains :
            (dr[d].pc = "dispatch" /\ dr'[d].pc # "dispatch")
                => dispatched' = Append(dispatched,
                        [result |-> dr[d].result,
                         handler |-> HandlerFor(dr[d].handler)])]_vars

C13_Witness ==
    /\ Len(dispatched) = MaxTasks
    /\ dispatched[1].handler = "default"
    /\ dispatched[2].handler \in Handlers

\* Every submitted Task has been processed and its Result handled.
AllProcessed ==
    /\ tasks = <<>>
    /\ results = <<>>
    /\ \A w \in Goroutines : wk[w].pc \in {"none", "recv", "done"}
    /\ InDispatch = {}

DispatchesOf(t) == {j \in 1..Len(dispatched) : dispatched[j].result.Task = t}

\* C14: on a started service, once the Tasks of the N CheckDomain calls made
\* (all before Stop) have been processed, there have been exactly N handler
\* invocations, one per submitted Task; and when the handler was registered
\* before the first CheckDomain call, every one of them is an invocation of
\* that handler.
C14_OneInvocationPerTask ==
    /\ []((StartReturned /\ AllProcessed /\ ~lateAdd) =>
            /\ Len(dispatched) = Submitted
            /\ Len(accepted) = Submitted
            /\ \A i \in 1..Len(accepted) : Cardinality(DispatchesOf(accepted[i])) = 1)
    /\ []((handler # NilHandler /\ Submitted = 0) =>
            [](\A j \in 1..Len(dispatched) : dispatched[j].handler = handler))

C14_Witness ==
    /\ StartReturned
    /\ AllProcessed
    /\ ~lateAdd
    /\ stopPc = "returned"
    /\ Submitted = MaxTasks
    /\ \A j \in 1..MaxTasks : dispatched[j].handler \in Handlers


\* The mathematical floor of n / d, for d > 0.
Floor(n, d) == n \div d

\* A direct call that returned a Certificate.
ProbeReturnedCert == probe.pc = "checked" /\ probe.cert # NoCert

\* C16: for every expiry time and check time, the daysRemaining stored in
\* the Certificate is floor(hours until notAfter / 24), negative values
\* included.
C16_DaysRemainingIsFloor ==
    ProbeReturnedCert =>
        probe.cert[1].TimeLeft = Floor(probe.answer.notAfter - probe.answer.now, 24)

\* What the code does instead: the quotient is rounded toward zero, which is
\* the floor exactly when the certificate has not yet expired.
DaysRemainingTruncates ==
    ProbeReturnedCert =>
        /\ probe.cert[1].TimeLeft = Truncate(probe.answer.notAfter - probe.answer.now, 24)
        /\ (probe.answer.notAfter >= probe.answer.now =>
                probe.cert[1].TimeLeft = Floor(probe.answer.notAfter - probe.answer.now, 24))

\* The server presented a certificate that is past its NotAfter when the
\* prober computes the time left.
ProbedExpired ==
    /\ probe.pc = "checked"
    /\ probe.ctx = CtxLive
    /\ ValidateOf[probe.hostname] = NoErr
    /\ probe.answer.outcome = "ok"
    /\ probe.answer.notAfter < probe.answer.now

\* C17: a certificate whose notAfter is earlier than the check time, by any
\* amount, gives a successful Certificate with a strictly negative
\* daysRemaining: not an error and not zero.
C17_ExpiredIsNegative ==
    ProbedExpired =>
        /\ probe.err = NoErr
        /\ probe.cert # NoCert
        /\ probe.cert[1].TimeLeft < 0

\* What the code does instead: a certificate already expired at the
\* handshake is a handshake error, and one that expires between the
\* handshake and the computation has zero days left.
ExpiredIsErrorOrZero ==
    ProbedExpired =>
        \/ probe.err = HandshakeErr /\ probe.cert = NoCert
        \/ probe.err = NoErr /\ probe.cert # NoCert /\ probe.cert[1].TimeLeft = 0


\* A direct call with a valid hostname under a ctx cancelled beforehand.
ProbedCancelled ==
    /\ probe.pc = "checked"
    /\ probe.ctx = CtxCanceled
    /\ ValidateOf[probe.hostname] = NoErr

\* C18: when the ctx passed to the prober is already cancelled before any
\* network activity begins, the probe returns the cancellation error and
\* makes no connection attempt.
C18_CancelledBeforeNetwork ==
    ProbedCancelled => probe.err = ContextErr /\ ~probe.attempted

\* What the code does instead: the dial refuses to start, and its error comes
\* back as a connection error that wraps the cancellation.
CancelledIsConnectError ==
    ProbedCancelled =>
        /\ probe.err = ConnectCanceledErr
        /\ IsCanceled(probe.err)
        /\ probe.cert = NoCert
        /\ ~probe.attempted


\* The label grammar as the rules state it: every dot-separated label has 1
\* to 63 characters, all letters, digits or hyphens, and neither starts nor
\* ends with a hyphen; the name neither starts nor ends with a dot or a
\* hyphen and contains no two dots in a row.
LabelGrammar(h) ==
    /\ \A i \in 1..Len(h) : h[i] \in Alnum \cup {"-", "."}
    /\ \A i \in 1..Len(h) :
          h[i] = "-" => /\ i > 1 /\ i < Len(h)
                        /\ h[i - 1] # "." /\ h[i + 1] # "."
    /\ \A i \in 1..Len(h) :
          h[i] = "." => /\ i > 1 /\ i < Len(h) /\ h[i + 1] # "."
    /\ \A i \in 1..(Len(h) - MaxLabelLen) :
          \E j \in i..(i + MaxLabelLen) : h[j] = "."

\* The error of the first failing rule.
FirstFailingRule(h) ==
    IF IsBlank(h) THEN EmptyHostnameErr
    ELSE IF Len(h) > MaxHostnameLen THEN HostnameTooLongErr
    ELSE IF ~LabelGrammar(h) THEN InvalidCharactersErr
    ELSE NoErr

GrammarExamples ==
    {<<"a", ".", ".", "b">>, <<"-", "a", ".", "b">>, <<"a", ".", "b", ":">>}

\* C20: ValidateHostname applies its rules in order and the first failing
\* rule gives the error: a blank name is Empty even when longer than 253
\* characters; otherwise a name longer than 253 characters is TooLong even
\* when it breaks the label grammar; otherwise a grammar violation (two dots
\* in a row, a leading hyphen, a colon) is the invalid-characters error; a
\* name passing every rule has no error.
C20_FirstFailingRuleWins ==
    probe.pc = "validated" =>
        /\ probe.err = FirstFailingRule(probe.hostname)
        /\ (probe.hostname \in GrammarExamples => probe.err = InvalidCharactersErr)

\* A name of 254 spaces has been validated: it is Empty, not TooLong.
C20_Witness ==
    /\ probe.pc = "validated"
    /\ probe.hostname = Repeat(" ", MaxHostnameLen + 1)
    /\ probe.err = EmptyHostnameErr


\* A row has just been written for a failed check, or for a successful one.
FailurePersisted(id) == repo'[id] # repo[id] /\ repo'[id].lastError # Null
SuccessPersisted(id) == repo'[id] # repo[id] /\ repo'[id].lastError = Null

\* C19: persisting the Result of a failed check changes only the row's last
\* error and last-checked time; the stored expiry date keeps its previous
\* value, and only a successful probe overwrites it.
C19_FailureKeepsExpiry ==
    [][\A id \in DOMAIN repo :
          /\ FailurePersisted(id) =>
                /\ repo'[id].expiry = repo[id].expiry
                /\ repo'[id].lastChecked > repo[id].lastChecked
          /\ repo'[id].expiry # repo[id].expiry => SuccessPersisted(id)]_vars

\* What the code does instead: every write sets all three columns, so a
\* failed check stores NULL as the expiry date.
FailureErasesExpiry ==
    [][\A id \in DOMAIN repo :
          /\ DOMAIN repo' = DOMAIN repo
          /\ FailurePersisted(id) =>
                /\ repo'[id].expiry = Null
                /\ repo'[id].lastChecked > repo[id].lastChecked
          /\ SuccessPersisted(id) =>
                /\ repo'[id].expiry # Null
                /\ repo'[id].lastChecked > repo[id].lastChecked]_vars


\* The Tasks accepted so far for one domain.
AcceptedFor(id) == {i \in 1..Len(accepted) : accepted[i].DomainID = id}

\* Every Task submitted so far has been checked and handed to a handler,
\* and the handler has returned.
AllChecksCompleted ==
    /\ Len(dispatched) = subCount[1]
    /\ \A d \in Drains : dr[d].pc \in {"none", "recv", "done"}

\* A bulk check submits one Task per domain, in the order of the rows, and
\* returns after as many completion signals as it has domains.
BulkSubmitsOncePerDomain ==
    /\ \A id \in 1..NumDomains :
          Cardinality(AcceptedFor(id)) = Cardinality({b \in BulkCallers : bulk[b].sent >= id})
    /\ \A b \in BulkCallers :
          /\ bulk[b].sent <= NumDomains /\ bulk[b].seen <= bulk[b].sent
          /\ bulk[b].pc = "wait" => bulk[b].sent = NumDomains /\ bulk[b].seen < NumDomains
          /\ bulk[b].pc = "returned" =>
                bulk[b].sent = NumDomains /\ bulk[b].seen = NumDomains

\* C15: a bulk check over N domains submits exactly one Task per domain,
\* returns only after it has observed exactly N completion signals, and
\* does return once all N checks have completed.
C15_BulkCheckReturns ==
    /\ []BulkSubmitsOncePerDomain
    /\ \A b \in BulkCallers :
          (bulk[b].pc = "wait" /\ AllChecksCompleted) ~> (bulk[b].pc = "returned")

\* A bulk check that no other bulk check overlaps does return.
LoneBulkCheckReturns ==
    [](bulk[2].pc = "idle") => ((bulk[1].pc # "idle") ~> (bulk[1].pc = "returned"))


\* C21: NewHostname(s) succeeds exactly when ValidateHostname(s) returns no
\* error; on success the Hostname's String() is s and IsValid() is true, on
\* failure the empty Hostname comes back together with the validation error.
C21_NewHostnameAgreesWithValidate ==
    probe.pc = "made" =>
        /\ (probe.err = NoErr) <=> (ValidateHostname(probe.hostname) = NoErr)
        /\ probe.err = NoErr => probe.made = probe.hostname /\ probe.isValid
        /\ probe.err # NoErr =>
              /\ probe.made = <<>>
              /\ probe.err = ValidateHostname(probe.hostname)
              /\ ~probe.isValid

\* NewHostname has refused a name that is not empty.
C21_Witness ==
    /\ probe.pc = "made"
    /\ probe.hostname = <<"-", "a", ".", "b">>
    /\ probe.err = InvalidCharactersErr
    /\ probe.made = <<>>


\* The prober, called directly or by processTask, has returned for a name
\* that fails validation.
ProbedInvalid ==
    /\ probe.pc \in {"checked", "processed"}
    /\ ValidateOf[probe.hostname] # NoErr

\* C22: a Task or probe whose hostname fails validation is never attempted
\* over the network; its error is produced before any dial is started, in
\* processTask and in CheckSSLCertificate called directly.
C22_InvalidNeverDialed ==
    ProbedInvalid =>
        /\ ~probe.attempted
        /\ probe.cert = NoCert
        /\ probe.err = (IF probe.pc = "checked" THEN InvalidHostnameErr
                        ELSE ValidateOf[probe.hostname])

\* A direct call with a live ctx and a reachable server has refused a name
\* with a colon in it.
C22_Witness ==
    /\ probe.pc = "checked"
    /\ probe.ctx = CtxLive
    /\ probe.answer.outcome = "ok"
    /\ probe.hostname = <<"a", ".", "b", ":">>
    /\ probe.err = InvalidHostnameErr
    /\ ~probe.attempted


\* C24: Stop performs its steps in a fixed order: the task queue is closed
\* first, the result stream is closed only after every worker has exited,
\* and the cancellation signal is fired only after the result stream is
\* closed.
C24_StopOrder ==
    /\ [][(tasksClosed' /\ ~tasksClosed) => ~resultsClosed /\ ~ctxDone]_vars
    /\ [][(resultsClosed' /\ ~resultsClosed) =>
            tasksClosed /\ Live = {} /\ wg = 0 /\ ~ctxDone]_vars
    /\ [][(ctxDone' /\ ~ctxDone) => tasksClosed /\ resultsClosed /\ Live = {}]_vars
    /\ [](stopPc = "returned" /\ Running => tasksClosed /\ resultsClosed /\ ctxDone)

\* Stop has returned on a pool whose workers had processed a Task.
C24_Witness ==
    /\ stopPc = "returned"
    /\ Running
    /\ Spawned # {}
    /\ Len(received) > 0
    /\ tasksClosed /\ resultsClosed /\ ctxDone


\* The pool is in the Created state: neither Start nor Stop has been called.
Created == NeverStarted /\ stopPc = "idle"

\* C28: AddTask called while the pool is in the Created state is a no-op:
\* the Task is dropped and never yields a Result, even if Start is called
\* afterwards.
C28_AddTaskBeforeStartDrops ==
    \A i \in 1..MaxTasks :
        []((Created /\ Len(accepted) >= i) =>
              [](Len(accepted) >= i =>
                    \A j \in 1..Len(Published) : Published[j].Task # accepted[i]))

\* What the code does instead: in the Created state the Task goes into the
\* buffered task channel whenever there is room, exactly as on a started
\* pool, and waits there for the workers that Start spawns.
AddTaskBeforeStartEnqueues ==
    [][(Created /\ subCount' # subCount) =>
          /\ Len(tasks) < QueueCap
          /\ Len(tasks') = Len(tasks) + 1
          /\ Len(accepted') = Len(accepted) + 1
          /\ dropped' = dropped]_vars


\* An AddTask call returns in this step.
AddTaskReturns == subCount' # subCount

\* C30: the task queue and the result queue never hold more than their
\* fixed capacity, and on a running pool an AddTask that finds the task
\* queue full blocks until a worker frees a slot and then enqueues its Task;
\* it never drops a Task because the queue is full.
C30_BoundedQueuesBlockNotDrop ==
    /\ [](Len(tasks) <= QueueCap /\ Len(results) <= QueueCap)
    /\ [][(AddTaskReturns /\ stopPc = "idle") =>
            /\ Len(tasks) < QueueCap
            /\ Len(tasks') = Len(tasks) + 1
            /\ tasks'[Len(tasks')] = accepted'[Len(accepted')]
            /\ Len(accepted') = Len(accepted) + 1
            /\ dropped' = dropped
            /\ fault' = fault]_vars
    /\ [][dropped' # dropped => ctxDone]_vars
    /\ (Len(tasks) = QueueCap /\ PoolStarted /\ workers >= 1 /\ Drained /\ stopPc = "idle")
          ~> (Len(tasks) < QueueCap \/ stopPc # "idle")

\* On a running pool the task queue is full again after a worker had freed
\* a slot: more Tasks have been accepted than the queue holds.
C30_Witness ==
    /\ PoolStarted
    /\ stopPc = "idle"
    /\ Running
    /\ Len(tasks) = QueueCap
    /\ Len(accepted) > QueueCap


\* A worker runs processTask in this step; a Result is sent to the result
\* stream in this step.
TaskProbed == \E w \in Goroutines : wk[w].pc = "process" /\ wk'[w].pc = "publish"
ResultProduced == Len(Published') > Len(Published)

\* C29: the Certificate Service cannot be restarted: once Stop has returned,
\* no later Start or CheckDomain call causes any Task to be probed or any
\* new Result to be produced or dispatched.
C29_NoRestart ==
    [][stopPc = "returned" =>
          /\ ~TaskProbed
          /\ ~ResultProduced
          /\ \A j \in 1..Len(dispatched') :
                \E i \in 1..Len(Published) : Published[i] = dispatched'[j].result]_vars

\* What the code guarantees: a service that had no Task waiting in its
\* queue when Stop was called stays inert once Stop has returned.
StoppedEmptyStaysInert ==
    [][(stopPc = "returned" /\ queuedAtStop = 0) =>
          /\ ~TaskProbed
          /\ ~ResultProduced
          /\ tasks' = <<>>]_vars


\* Worker w leaves its publish of a Result that carries an error.
PublishedFailure(w) ==
    /\ wk[w].pc = "publish"
    /\ wk[w].result.Error # NoErr
    /\ wk'[w].pc # "publish"

\* Worker w is spawned by Start; worker w ends because the task queue is
\* closed and exhausted.
SpawnedByStart(w) ==
    /\ wk[w].pc = "none"
    /\ wk'[w].pc = "recv"
    /\ \E c \in StartCallers : startPc[c] = "loop"
ExitsAtClosedQueue(w) ==
    /\ wk[w].pc = "recv"
    /\ wk'[w].pc = "done"
    /\ tasksClosed /\ tasks = <<>>

\* A failing check ends no worker, and the workers change only at Start and
\* at the end of the task queue.
FailingCheckKeepsWorker ==
    \A w \in Goroutines :
        /\ (wk[w].pc = "process" /\ wk'[w].pc # "process") =>
              wk'[w].pc = "publish" /\ fault' = NoFault
        /\ PublishedFailure(w) => wk'[w].pc = "recv" /\ fault' = NoFault
        /\ ((w \in Live) # (w \in Live')) => SpawnedByStart(w) \/ ExitsAtClosedQueue(w)

\* C23: a failing check never terminates a worker: after producing a Result
\* that carries an error the worker stays live and goes on to take the next
\* Task, so the live workers change only at Start and when the task queue
\* is closed and exhausted.
C23_FailingCheckKeepsWorker == [][FailingCheckKeepsWorker]_vars

\* The same, for every step taken before Stop has returned.
FailingCheckKeepsWorkerUntilStopped ==
    [][stopPc # "returned" => FailingCheckKeepsWorker]_vars


\* The probes still to be made or under way.
PendingProbes == Len(tasks) + Cardinality({w \in Goroutines : wk[w].pc = "process"})

\* C25: if no remote host ever responds, Stop still returns: each probe in
\* flight ends no later than its own timeout, so with the result stream
\* drained a hung host delays shutdown by at most one timeout for each Task
\* queued or in flight, not for ever (no AddTask being called once Stop has
\* been).
C25_HungHostDelaysStopBoundedly ==
    /\ [](\A id \in 1..MaxTasks : ticks[id] <= TaskTimeout)
    /\ [](stopPc # "idle" => PendingProbes <= queuedAtStop + Cardinality(Spawned))
    /\ [][stopPc # "idle" => PendingProbes' <= PendingProbes]_vars
    /\ (stopPc # "idle" /\ Drained) ~> (stopPc = "returned" \/ lateAdd)

\* Stop has returned after waiting a full timeout for a Task that was still
\* queued when it was called.
C25_Witness ==
    /\ stopPc = "returned"
    /\ Running
    /\ ~lateAdd
    /\ queuedAtStop > 0
    /\ \E i \in 1..Len(received) :
          /\ received[i].Error = ConnectErr
          /\ ticks[received[i].Task.DomainID] = TaskTimeout


\* The result loop of a started service has ended.
DrainEnded == started /\ LiveDrains = {}

\* C26: after Stop has returned on a started service the drain loop ends,
\* and before it ends it hands to a handler every Result that was still
\* buffered in the result stream when Stop returned (handlers return; no
\* CheckDomain being called once Stop has been).
C26_DrainLoopEndsAfterStop ==
    /\ (stopPc = "returned" /\ started) ~> (DrainEnded \/ lateAdd)
    /\ []((DrainEnded /\ Running) =>
            /\ resultsClosed
            /\ results = <<>>
            /\ Len(dispatched) = Len(Published)
            /\ \A j \in 1..Len(Published) : dispatched[j].result = Published[j])
    /\ [][(LiveDrains' # LiveDrains /\ LiveDrains' \subseteq LiveDrains) =>
            resultsClosed /\ results = <<>>]_vars

\* Stop has returned while the loop is busy with one Result and another is
\* still buffered in the result stream.
C26_Witness ==
    /\ stopPc = "returned"
    /\ started
    /\ Running
    /\ results # <<>>
    /\ \E d \in Drains : dr[d].pc = "dispatch"


\* A handler is running in drain loop d: the loop has taken its snapshot and
\* the call it then makes has not returned.
HandlerRuns(d) == dr[d].pc = "dispatch"

\* C27: the drain loop holds the service mutex only for the snapshot of the
\* handler reference, never while a handler runs; so while a handler runs,
\* a SetResultHandler or a Start that no other Start keeps out can take the
\* mutex at once, and the SetResultHandler or the Start of a started service
\* ends with the handler still running.
C27_HandlerRunsUnlocked ==
    /\ [](mu \in {0} \cup StartCallers)
    /\ [](\A d \in Drains :
            (Running /\ HandlerRuns(d) /\ mu \notin StartCallers) =>
                /\ \A h \in Handlers : ENABLED SetResultHandler(h)
                /\ \A c \in StartCallers :
                      (startPc[c] = "idle" /\ stopPc = "idle") => ENABLED CsStartCall(c))
    /\ [][\A d \in Drains :
            (HandlerRuns(d) /\ (handler' # handler \/ startPc' # startPc)) =>
                /\ dr' = dr
                /\ mu' \in {0} \cup StartCallers]_vars

\* While a handler runs the handler reference has been replaced and a Start
\* on the started service has returned.
C27_Witness ==
    /\ Running
    /\ \E d \in Drains : HandlerRuns(d) /\ dr[d].handler # handler
    /\ \A c \in StartCallers : startPc[c] = "done"
    /\ mu = 0


\* The prober was called directly and DialContext gave it a connection.
ProbeDialed ==
    /\ probe.pc = "checked"
    /\ probe.attempted
    /\ probe.answer.outcome # "dial"

\* C31: on every exit path of the prober after a successful dial (failed
\* handshake, cancellation seen after the handshake, empty chain, success)
\* the connection is closed when the probe returns, and a probe that opened
\* no connection leaves none: no probe returns with a connection open.
C31_ConnectionClosedOnEveryExit ==
    /\ ProbeDialed => probe.conn = ConnClosed
    /\ (probe.pc = "checked" /\ ~ProbeDialed) => probe.conn = NoConn
    /\ probe.conn # ConnOpen

\* A probe returned from a failed handshake, after its dial had succeeded.
C31_Witness ==
    /\ ProbeDialed
    /\ probe.err = HandshakeErr
    /\ probe.conn = ConnClosed


\* Both bulk checks have been requested: neither is still to begin.
BulkChecksOverlap == \A b \in BulkCallers : bulk[b].pc # "idle"

\* The result loop is inside a handler's `done <- true`.
InCompletionSignal(d) == dr[d].pc = "signal"

\* C32: when two bulk checks overlap on the same Certificate Service, each
\* caller still returns once its domains have been checked, and the result
\* loop never stays for ever inside a handler's completion signal.
C32_OverlappingBulkChecksReturn ==
    /\ \A b \in BulkCallers :
          (BulkChecksOverlap /\ bulk[b].pc = "wait" /\ AllChecksCompleted)
              ~> (bulk[b].pc = "returned")
    /\ \A d \in Drains : InCompletionSignal(d) ~> ~InCompletionSignal(d)

\* The second half alone: with two callers a completion signal always gets
\* through, each handler's channel taking as many signals as its call has
\* domains beyond those the call receives.
CompletionSignalNeverBlocksForEver ==
    /\ \A d \in Drains : InCompletionSignal(d) ~> ~InCompletionSignal(d)
    /\ [](\A b \in BulkCallers : done[b] <= NumDomains)


\* Worker w has been spawned and has not returned.
WorkerLive(w) == wk[w].pc \in {"recv", "process", "publish"}

\* This step fires the pool's cancellation signal.
CancelFires == ~ctxDone /\ ctxDone'

\* Worker w leaves its publish through `case <-wp.ctx.Done(): return`,
\* and the Result it held is gone.
TakesAbortBranch(w) == wk[w].pc = "publish" /\ wk'[w].pc = "done"

\* Worker w ends a probe that ran under a cancelled pool context.
ProbeAbortedByShutdown(w) == wk[w].pc = "process" /\ wk'[w].pc = "publish" /\ ctxDone

\* C33: the pool's cancellation signal is fired only when no worker is
\* live; hence no worker ever takes the abort branch of its publish, no
\* Result that a worker produced is discarded, and no probe in flight is
\* aborted by the shutdown of the pool.
C33_CancelOnlyWhenNoWorkerLive ==
    /\ [][CancelFires => \A w \in Goroutines : ~WorkerLive(w)]_vars
    /\ [][\A w \in Goroutines : ~TakesAbortBranch(w)]_vars
    /\ [][\A w \in Goroutines : ~ProbeAbortedByShutdown(w)]_vars

\* The signal itself is always fired with no worker live.
CancelFiresWithNoWorkerLive ==
    [][CancelFires => \A w \in Goroutines : ~WorkerLive(w)]_vars

\* Until Stop has returned no worker aborts a publish or a probe.
NoAbortUntilStopped ==
    [][stopPc # "returned" =>
         \A w \in Goroutines : ~TakesAbortBranch(w) /\ ~ProbeAbortedByShutdown(w)]_vars


\* This step is the second call of Stop.
SecondStopBegins == stopPc = "returned" /\ stopPc' # "returned"

\* C34: Stop called a second time, on a pool or service already stopped,
\* returns without fault and leaves it stopped; no queue is closed twice.
C34_SecondStopIsHarmless ==
    [][SecondStopBegins =>
         /\ fault' = NoFault
         /\ tasksClosed' /\ resultsClosed' /\ ctxDone']_vars

\* Every second Stop ends the process with the panic of a double close.
SecondStopPanics ==
    [][SecondStopBegins => (fault = NoFault /\ fault' = "close of closed channel")]_vars


\* The workers inside processTask: the Tasks being probed at this moment.
Probing == {w \in Goroutines : wk[w].pc = "process"}

\* C35: at every moment the number of Tasks being probed is at most the
\* configured worker count, however many Tasks are queued and however many
\* times the service's Start is called; no more goroutines than that are
\* ever spawned.
C35_ProbesBoundedByWorkers ==
    /\ Cardinality(Probing) <= workers
    /\ Cardinality(Spawned) <= workers

\* Every Start call has returned, each worker is probing and a further
\* Task waits in the queue.
C35_Witness ==
    /\ \A c \in StartCallers : startPc[c] = "done"
    /\ workers >= 1
    /\ Cardinality(Probing) = workers
    /\ tasks # <<>>


\* Only one caller has submitted Tasks.
SingleSubmitter == \E s \in Submitters : \A t \in Submitters \ {s} : subCount[t] = 0

\* The Results on the result stream, taken or not, follow the order in
\* which their Tasks were submitted (identities are given in that order).
InSubmissionOrder ==
    \A j, k \in 1..Len(Published) :
        j < k => Published[j].Task.DomainID < Published[k].Task.DomainID

\* Workers w and v each hold a Result and the result stream has room.
BothReadyToPublish(w, v) ==
    /\ Running
    /\ w # v
    /\ wk[w].pc = "publish"
    /\ wk[v].pc = "publish"
    /\ ~resultsClosed
    /\ Len(results) < QueueCap

ReorderedWithTwoWorkers ==
    /\ workers >= 2
    /\ SingleSubmitter
    /\ Len(Published) = 2
    /\ ~InSubmissionOrder


\* The Results handed to the closure of bulk check b so far.
HandedTo(b) == {i \in 1..Len(dispatched) : dispatched[i].handler = BulkHandler(b)}

\* The closure calls of bulk check b that have stored, or failed to store,
\* their Result and have not yet signalled.
AboutToSignal(b) == {d \in Drains : dr[d].pc = "signal" /\ dr[d].handler = BulkHandler(b)}

\* The completion signals sent on the channel of bulk check b: those still
\* buffered and those the call has received.
SignalsSent(b) == done[b] + bulk[b].seen

\* C37: the bulk-check handler signals completion exactly once for every
\* Result it receives, whether the check succeeded or failed and whether
\* or not storing the outcome fails (the domain having been removed
\* meanwhile); so a failure to store never leaves the bulk caller waiting.
C37_SignalOncePerResult ==
    /\ [](\A b \in BulkCallers :
            SignalsSent(b) + Cardinality(AboutToSignal(b)) = Cardinality(HandedTo(b)))
    /\ \A d \in Drains : (dr[d].pc = "signal") ~> (dr[d].pc = "recv")
    /\ [](bulk[2].pc = "idle") =>
            \A b \in BulkCallers : (bulk[b].pc # "idle") ~> (bulk[b].pc = "returned")

\* A bulk check has returned although the last Result its handler stored
\* found no row to update.
C37_Witness ==
    /\ \E b \in BulkCallers : bulk[b].pc = "returned" /\ bulk[b].seen > 0
    /\ \E d \in Drains : dr[d].pc = "recv" /\ dr[d].updateErr
    /\ repo = <<>>


\* The rows that hold this owner and name.
RowsOf(userID, domainName) == CheckForDuplicateDomains(repo, userID, domainName)

\* Caller c's CreateDomain returns at this step.
CreateReturns(c) == create[c].pc # "done" /\ create'[c].pc = "done"

\* C38: CreateDomain never leaves two stored domains with the same owner
\* and name: a call whose (userID, name) is already stored, or whose userID
\* is zero or whose name is empty, returns an error and leaves the stored
\* domains as they are; only a call that returns no error stores a row,
\* exactly one, with its owner and name.
C38_NoDuplicateDomains ==
    /\ [](\A i, j \in DOMAIN repo :
            (repo[i].UserID = repo[j].UserID /\ repo[i].DomainName = repo[j].DomainName)
                => i = j)
    /\ [](\A i \in DOMAIN repo : repo[i].UserID # 0 /\ repo[i].DomainName # <<>>)
    /\ [][\A c \in Creators : CreateReturns(c) =>
            LET u == create'[c].UserID
                n == create'[c].DomainName
            IN /\ (u = 0 \/ n = <<>> \/ RowsOf(u, n) # {}) =>
                      (create'[c].err # NoErr /\ repo' = repo)
               /\ create'[c].err # NoErr => repo' = repo
               /\ create'[c].err = NoErr =>
                      /\ DOMAIN repo' = DOMAIN repo \cup {NextRowID(repo)}
                      /\ \A id \in DOMAIN repo : repo'[id] = repo[id]
                      /\ repo'[NextRowID(repo)].UserID = u
                      /\ repo'[NextRowID(repo)].DomainName = n]_vars

\* Two callers created the same domain at once: both passed the duplicate
\* check, one stored the row and the other's INSERT was refused.
C38_Witness ==
    /\ \A c \in Creators : create[c].pc = "done" /\ create[c].calls = 1
    /\ create[1].UserID = create[2].UserID
    /\ create[1].DomainName = create[2].DomainName
    /\ {create[1].err, create[2].err} = {NoErr, UniqueConstraintErr}
    /\ Cardinality(RowsOf(create[1].UserID, create[1].DomainName)) = 1


\* The checks ValidateHostname makes after the regular expression: no "..",
\* no leading or trailing "." or "-", every label of 1 to 63 characters
\* with no leading or trailing "-".
PassesLaterChecks(h) ==
    /\ ~ContainsDotDot(h)
    /\ ~(HasPrefix(h, ".") \/ HasSuffix(h, ".") \/ HasPrefix(h, "-") \/ HasSuffix(h, "-"))
    /\ LET labels == Labels(h) IN
        \A k \in 1..Len(labels) :
            /\ Len(labels[k]) \in 1..MaxLabelLen
            /\ ~HasPrefix(labels[k], "-")
            /\ ~HasSuffix(labels[k], "-")

\* The name passes the emptiness, length and regular-expression checks.
PassesRegexChecks(h) == ~IsBlank(h) /\ Len(h) <= MaxHostnameLen /\ MatchesRegex(h)

\* C39: ValidateHostname never returns the generic invalid-hostname error:
\* every name that passes the emptiness, length and regular-expression
\* checks also passes the later checks, which therefore reject nothing.
C39_LaterChecksNeverReject ==
    probe.pc = "validated" =>
        /\ probe.err # InvalidHostnameErr
        /\ PassesRegexChecks(probe.hostname) =>
              (PassesLaterChecks(probe.hostname) /\ probe.err = NoErr)

\* A name with a hyphen inside a label and two labels has been validated
\* and accepted.
C39_Witness ==
    /\ probe.pc = "validated"
    /\ probe.hostname = <<"a", "-", "b", ".", "1">>
    /\ PassesRegexChecks(probe.hostname)
    /\ probe.err = NoErr

====
